---- MODULE Spec2Model ----
(***************************************************************************)
(* Model of the worklist parser of mh_utils: the column registry           *)
(* (worklist_parser/columns.py), the sample-info decoder                   *)
(* (worklist_parser/parser.py) and the worklist assembler and tabular      *)
(* projection (worklist_parser/classes.py).                                *)
(*                                                                         *)
(* XML text is a record [lead, body, trail]: `body` is the text without    *)
(* its surrounding whitespace, `lead` and `trail` count the whitespace     *)
(* characters around it.  Python objects are records [k, s, n]: `k` is the *)
(* Python type, `s` the payload of a str/path, `n` the payload of an       *)
(* int/bool, or of a float in tenths.                                      *)
(***************************************************************************)
EXTENDS Integers, Sequences, FiniteSets, TLC

\* Longest AttributeInformation, JobDataList and SampleDataArray lists explored.
MaxAttrs == 2
MaxJobs == 2
MaxData == 2

-----------------------------------------------------------------------------
(* Python values *)

Str(s) == [k |-> "str", s |-> s, n |-> 0]
Int_(n) == [k |-> "int", s |-> "", n |-> n]
Float(tenths) == [k |-> "float", s |-> "", n |-> tenths]
Bool(b) == [k |-> "bool", s |-> "", n |-> IF b THEN 1 ELSE 0]
Path(s) == [k |-> "path", s |-> s, n |-> 0]
Datetime(s) == [k |-> "datetime", s |-> s, n |-> 0]
None == [k |-> "none", s |-> "", n |-> 0]

\* The outcome of a call: a value, or the exception it raised.
Ok(v) == [ok |-> TRUE, val |-> v, err |-> ""]
Raise(e) == [ok |-> FALSE, val |-> None, err |-> e]

\* Op applied to the value of v, with v evaluated once.
Bind(Op(_), v) == CHOOSE r \in {Op(x) : x \in {v}} : TRUE

\* XML text: `s` with no whitespace around it, and with some.
Text(s) == [lead |-> 0, body |-> s, trail |-> 0]
Padded(s) == [lead |-> 1, body |-> s, trail |-> 2]

\* str.strip(): the text without its leading and trailing whitespace.
strip(t) == t.body

\* The decimal integer literals of the model and the int each denotes.
IntLiterals == {"-2", "-1", "0", "1", "2", "5", "8", "12", "30", "31", "50", "99", "200"}
IntOf(s) ==
    CASE s = "-2" -> -2 [] s = "-1" -> -1 [] s = "0" -> 0 [] s = "1" -> 1
      [] s = "2" -> 2 [] s = "5" -> 5 [] s = "8" -> 8 [] s = "12" -> 12 [] s = "30" -> 30
      [] s = "31" -> 31 [] s = "50" -> 50 [] s = "99" -> 99 [] s = "200" -> 200

\* The literals float() accepts and int() does not, in tenths.
DecimalLiterals == {"2.6", "1.5", "0.0", "1.0"}
TenthsOf(s) ==
    CASE s = "2.6" -> 26 [] s = "1.5" -> 15 [] s = "0.0" -> 0 [] s = "1.0" -> 10

\* repr of an int and of a float, as str() writes them.
IntRepr(n) ==
    IF \E s \in IntLiterals : IntOf(s) = n
    THEN CHOOSE s \in IntLiterals : IntOf(s) = n
    ELSE "<int>"
FloatRepr(tenths) ==
    IF \E s \in DecimalLiterals : TenthsOf(s) = tenths
    THEN CHOOSE s \in DecimalLiterals : TenthsOf(s) = tenths
    ELSE "<float>"

\* bool(v): Python truthiness.
Truthy(v) ==
    CASE v.k = "str" -> v.s # "" \/ v.n > 0
      [] v.k \in {"int", "float", "bool"} -> v.n # 0
      [] v.k = "none" -> FALSE
      [] OTHER -> TRUE

\* str(v)
py_str(v) ==
    CASE v.k = "str" -> v
      [] v.k = "int" -> Str(IntRepr(v.n))
      [] v.k = "float" -> Str(FloatRepr(v.n))
      [] v.k = "bool" -> Str(IF v.n = 1 THEN "True" ELSE "False")
      [] v.k = "none" -> Str("None")
      [] OTHER -> Str(v.s)

\* int(v): a str must be an integer literal, a float is truncated.
py_int(v) ==
    CASE v.k = "str" ->
           IF v.s \in IntLiterals THEN Ok(Int_(IntOf(v.s))) ELSE Raise("ValueError")
      [] v.k \in {"int", "bool"} -> Ok(Int_(v.n))
      [] v.k = "float" ->
           Ok(Int_(IF v.n >= 0 THEN v.n \div 10 ELSE -((-v.n) \div 10)))
      [] OTHER -> Raise("TypeError")

\* float(v): a str must be an integer or a decimal literal.
py_float(v) ==
    CASE v.k = "str" ->
           IF v.s \in IntLiterals THEN Ok(Float(10 * IntOf(v.s)))
           ELSE IF v.s \in DecimalLiterals THEN Ok(Float(TenthsOf(v.s)))
           ELSE Raise("ValueError")
      [] v.k \in {"int", "bool"} -> Ok(Float(10 * v.n))
      [] v.k = "float" -> Ok(v)
      [] OTHER -> Raise("TypeError")

\* strip_string(val): str(val).strip(), on XML text.
strip_string(t) == strip(t)

\* as_path(val): None for an empty value, else the text as a Windows path.
as_path(v) ==
    IF ~Truthy(v) THEN Ok(None)
    ELSE LET s == py_str(v).s
         IN  IF s # "" THEN Ok(Path(s)) ELSE Ok(None)

\* strtobool of domdf_python_tools on the lower-cased text.
TrueWords == {"y", "yes", "t", "true", "on", "1"}
FalseWords == {"n", "no", "f", "false", "off", "0"}
Lower(s) ==
    CASE s \in {"Y"} -> "y"
      [] s \in {"YES", "Yes", "yEs"} -> "yes"
      [] s \in {"T"} -> "t"
      [] s \in {"TRUE", "True", "tRUe"} -> "true"
      [] s \in {"ON", "On", "oN"} -> "on"
      [] s \in {"N"} -> "n"
      [] s \in {"NO", "No", "nO"} -> "no"
      [] s \in {"F"} -> "f"
      [] s \in {"FALSE", "False", "falSE"} -> "false"
      [] s \in {"OFF", "Off", "oFF"} -> "off"
      [] s = "None" -> "none"
      [] s = "Truthy" -> "truthy"
      [] OTHER -> s

\* A variant of strtobool that does not fold the letter case.
strtobool_case_sensitive(s) ==
    IF s \in TrueWords THEN Ok(Bool(TRUE))
    ELSE IF s \in FalseWords THEN Ok(Bool(FALSE))
    ELSE Raise("ValueError")

strtobool(s) ==
    IF Lower(s) \in TrueWords THEN Ok(Bool(TRUE))
    ELSE IF Lower(s) \in FalseWords THEN Ok(Bool(FALSE))
    ELSE Raise("ValueError")

\* element_to_bool(val): "-1" counts as True.
element_to_bool(t) ==
    LET val == strip(t)
    IN  IF val = "-1" THEN Ok(Bool(TRUE)) ELSE strtobool(val)

\* A variant of injection_volume that knows the integer -1 only.
injection_volume_int_only(v) ==
    IF v.k = "int" /\ v.n = -1 THEN Ok(Str("As Method")) ELSE py_int(v)

\* injection_volume(val): -1 means "As Method".
injection_volume(v) ==
    IF (v.k = "str" /\ v.s = "-1" /\ v.n = 0) \/ (v.k = "int" /\ v.n = -1)
       \/ (v.k = "float" /\ v.n = -10)
    THEN Ok(Str("As Method"))
    ELSE py_int(v)

-----------------------------------------------------------------------------
(* worklist_parser/enums.py: AttributeType *)

SystemDefined == 0
SystemUsed == 1
UserAdded == 2

\* A variant of AttributeType that takes any int for a member.
AttributeTypeAnyInt(v) ==
    IF v.k = "int" THEN Ok(v.n) ELSE Raise("ValueError: not a valid AttributeType")

\* AttributeType(value): the member with that value; when none has it, the
\* ValueError of the enum lookup ("... is not a valid AttributeType").
AttributeType(v) ==
    IF v.k = "int" /\ v.n \in {SystemDefined, SystemUsed, UserAdded}
    THEN Ok(v.n)
    ELSE Raise("ValueError: not a valid AttributeType")

-----------------------------------------------------------------------------
(* Python dict: `keys` are the keys in insertion order, `at` maps each to its value *)

EmptyDict == [keys |-> << >>, at |-> << >>]
DictKeys(d) == d.keys
DictKeySet(d) == DOMAIN d.at
DictHas(d, key) == key \in DOMAIN d.at
DictGet(d, key) == d.at[key]
\* A variant of DictSet that keeps the value of a key already present.
DictSetDefault(d, key, value) ==
    IF DictHas(d, key) THEN d
    ELSE [keys |-> Append(d.keys, key), at |-> (key :> value) @@ d.at]

\* d[key] = value: a key already present keeps its position.
DictSet(d, key, value) ==
    [keys |-> IF DictHas(d, key) THEN d.keys ELSE Append(d.keys, key),
     at |-> (key :> value) @@ d.at]

-----------------------------------------------------------------------------
(* worklist_parser/columns.py *)

\* The dtype of a column applied to a value; "Any" is never called.
ApplyDtype(dtype, v) ==
    CASE dtype = "str" -> Ok(py_str(v))
      [] dtype = "float" -> py_float(v)
      [] dtype = "int" -> py_int(v)
      [] dtype = "as_path" -> as_path(v)
      [] dtype = "injection_volume" -> injection_volume(v)
      [] OTHER -> Ok(v)

\* A variant of default_value_validator that keeps the default uncast.
default_value_unvalidated(dtype, default_value) == Ok(default_value)

\* A variant of default_value_validator that tries the cast but keeps the
\* default as supplied.
default_value_checked_only(dtype, default_value) ==
    IF dtype # "Any" /\ ~ApplyDtype(dtype, default_value).ok
    THEN ApplyDtype(dtype, default_value)
    ELSE Ok(default_value)

\* Column.__default_value_validator: the default is cast unless dtype is Any.
default_value_validator(dtype, default_value) ==
    IF dtype # "Any" THEN ApplyDtype(dtype, default_value) ELSE Ok(default_value)

\* A variant of field_type_validator that takes a field of 0 for an unset one.
field_type_validator_falsy(attribute_id, field) ==
    IF field = <<>> \/ field = <<0>> THEN attribute_id ELSE field[1]

\* Column.__field_type_validator: an unset field (<<>>) becomes attribute_id.
field_type_validator(attribute_id, field) ==
    IF field = <<>> THEN attribute_id ELSE field[1]

\* Column(...): the attrs-generated constructor, converters then validators.
Column(name, attribute_id, attribute_type, dtype, default_value, field_type, reorder_id) ==
    LET atype == AttributeType(Int_(attribute_type))
        dflt == default_value_validator(dtype, default_value)
    IN  IF ~atype.ok THEN Raise(atype.err)
        ELSE IF ~dflt.ok THEN Raise(dflt.err)
        ELSE Ok([name |-> strip_string(name),
                 attribute_id |-> attribute_id,
                 attribute_type |-> atype.val,
                 dtype |-> dtype,
                 default_value |-> dflt.val,
                 field_type |-> field_type_validator(attribute_id, field_type),
                 reorder_id |-> field_type_validator(attribute_id, reorder_id)])

\* A variant of cast_value that takes every falsy value for a missing one.
cast_value_falsy(column, value) ==
    IF ~Truthy(value) THEN Ok(column.default_value)
    ELSE IF column.dtype = "Any" THEN Ok(value)
    ELSE ApplyDtype(column.dtype, value)

\* Column.cast_value: only the empty str (no character at all) gives the default.
cast_value(column, value) ==
    IF value.k = "str" /\ value.s = "" /\ value.n = 0 THEN Ok(column.default_value)
    ELSE IF column.dtype = "Any" THEN Ok(value)
    ELSE ApplyDtype(column.dtype, value)

\* A variant of DtypeOf in which every data_type but 5 is text.
DtypeOfTextOrFloat(data_type) ==
    IF data_type = 5 THEN "float" ELSE "str"

\* The dtype Column.from_attribute picks for a data_type.
DtypeOf(data_type) ==
    IF data_type = 8 THEN "str"
    ELSE IF data_type = 5 THEN "float"
    ELSE "Any"

\* Column.from_attribute
from_attribute(attribute) ==
    Column(Text(attribute.header_name),
           attribute.attribute_id,
           attribute.attribute_type,
           DtypeOf(attribute.data_type),
           Str(attribute.default_data_value),
           <<attribute.field_type>>,
           <<attribute.reorder_id>>)

\* One literal of the static table.
StaticColumn(name, attribute_id, dtype, default_value, reorder_id) ==
    Column(Text(name), attribute_id, SystemDefined, dtype, default_value, <<>>, reorder_id).val

\* The Column literals of `columns`, in the order written.
StaticColumns ==
    <<
       StaticColumn("Sample ID", 0, "str", Str(""), <<>>),
       StaticColumn("Sample Name", 1, "str", Str(""), <<>>),
       StaticColumn("Rack Code", 2, "str", Str(""), <<>>),
       StaticColumn("Rack Position", 3, "str", Str(""), <<>>),
       StaticColumn("Plate Code", 4, "str", Str(""), <<>>),
       StaticColumn("Plate Position", 5, "str", Str(""), <<>>),
       StaticColumn("Sample Position", 6, "str", Str(""), <<>>),
       StaticColumn("Method", 7, "as_path", None, <<>>),
       StaticColumn("Override DA Method", 8, "as_path", None, <<>>),
       StaticColumn("Data File", 9, "as_path", None, <<>>),
       StaticColumn("Sample Type", 10, "str", Str("Unknown"), <<>>),
       StaticColumn("Method Type", 11, "str", Str("Method No Override"), <<12>>),
       StaticColumn("Balance Override", 12, "str", Str("No Override"), <<13>>),
       StaticColumn("Inj Vol (µl)", 13, "injection_volume", Int_(5), <<14>>),
       StaticColumn("Equilib Time (min)", 14, "int", Int_(0), <<15>>),
       StaticColumn("Dilution", 15, "int", Int_(1), <<16>>),
       StaticColumn("Wt/Vol", 16, "float", Int_(0), <<17>>),
       StaticColumn("Comment", 17, "str", Str(""), <<18>>),
       StaticColumn("Barcode", 18, "str", Str(""), <<19>>),
       StaticColumn("Reserved1", 19, "str", Str(""), <<-1>>),
       StaticColumn("Reserved2", 20, "str", Str(""), <<-1>>),
       StaticColumn("Reserved3", 21, "str", Str(""), <<-1>>),
       StaticColumn("Reserved4", 22, "float", Int_(0), <<-1>>),
       StaticColumn("Reserved5", 23, "float", Int_(0), <<-1>>),
       StaticColumn("Reserved6", 24, "float", Int_(0), <<-1>>),
       StaticColumn("Level Name", 25, "str", Str(""), <<11>>),
       StaticColumn("Sample Group", 26, "str", Str(""), <<20>>),
       StaticColumn("Info.", 27, "str", Str(""), <<21>>)
    >>

RECURSIVE DictOfColumns(_)
DictOfColumns(cols) ==
    IF cols = <<>> THEN EmptyDict
    ELSE LET n == Len(cols)
             Insert(d) == DictSet(d, cols[n].name, cols[n])
         IN  Bind(Insert, DictOfColumns(SubSeq(cols, 1, n - 1)))

\* The module-level dict `columns`, {col.name: col for col in [...]}, is built
\* once at import and is read by parse_sample_info and as_dataframe.
VARIABLE columns
ColumnsAtImport == DictOfColumns(StaticColumns)

-----------------------------------------------------------------------------
(* worklist_parser/parser.py *)

\* sample_info_tags: tag name, display name, in the order written.
sample_info_tags ==
    <<
       <<"Identifier", "Sample ID">>,
       <<"Name", "Sample Name">>,
       <<"RackCode", "Rack Code">>,
       <<"RackPosition", "Rack Position">>,
       <<"PlateCode", "Plate Code">>,
       <<"PlatePosition", "Plate Position">>,
       <<"SamplePosition", "Sample Position">>,
       <<"AcqMethod", "Method">>,
       <<"DAMethod", "Override DA Method">>,
       <<"DataFileName", "Data File">>,
       <<"SampleType", "Sample Type">>,
       <<"MethodExecutionType", "Method Type">>,
       <<"BalanceType", "Balance Override">>,
       <<"InjectionVolume", "Inj Vol (µl)">>,
       <<"EquilibrationTime", "Equilib Time (min)">>,
       <<"DilutionFactor", "Dilution">>,
       <<"WeightPerVolume", "Wt/Vol">>,
       <<"Description", "Comment">>,
       <<"Barcode", "Barcode">>,
       <<"Reserved1", "Reserved1">>,
       <<"Reserved2", "Reserved2">>,
       <<"Reserved3", "Reserved3">>,
       <<"Reserved4", "Reserved4">>,
       <<"Reserved5", "Reserved5">>,
       <<"Reserved6", "Reserved6">>,
       <<"CalibLevelName", "Level Name">>,
       <<"SampleGroup", "Sample Group">>,
       <<"SampleInformation", "Info.">>
    >>

TagNames == {sample_info_tags[i][1] : i \in 1..Len(sample_info_tags)}

\* The timestamps of the model: the text and the same instant cut to seconds.
Timestamps == {"2019-11-21T15:54:01.1234567+00:00"}
Epoch == Datetime("1970-01-01T00:00:00+0000")

\* A variant of parse_datetime that does not strip its argument.
parse_datetime_unstripped(t) ==
    IF t.body # "" \/ t.lead + t.trail > 0
    THEN IF Len(t.body) + t.lead + t.trail < 3 THEN Raise("IndexError")
         ELSE IF t.body \in Timestamps /\ t.lead + t.trail = 0
         THEN Ok(Datetime("2019-11-21T15:54:01+0000"))
         ELSE Raise("ValueError")
    ELSE Ok(Epoch)

\* parse_datetime: the_date[-3] raises IndexError on fewer than three
\* characters, strptime ValueError on text that is not a timestamp.
parse_datetime(t) ==
    LET the_date == strip_string(t)
    IN  IF the_date # ""
        THEN IF Len(the_date) < 3 THEN Raise("IndexError")
             ELSE IF the_date \in Timestamps
             THEN Ok(Datetime("2019-11-21T15:54:01+0000"))
             ELSE Raise("ValueError")
        ELSE Ok(Epoch)

\* sample_info[key] = value
Put(f, key, value) == (key :> value) @@ f

\* str(x) of XML text, whitespace kept: n counts the whitespace characters.
py_str_text(t) == [k |-> "str", s |-> t.body, n |-> t.lead + t.trail]

\* int(x) of XML text: int() ignores surrounding whitespace.
py_int_text(t) == py_int(Str(strip(t)))

\* The four fields parse_sample_info reads first (lines 111-114).
DerivedFields(element) ==
    LET acq == parse_datetime(element.AcqTime)
        locked == element_to_bool(element.SampleLockedRunMode)
        completed == element_to_bool(element.RunCompletedFlag)
    IN  IF ~acq.ok THEN Raise(acq.err)
        ELSE IF ~locked.ok THEN Raise(locked.err)
        ELSE IF ~completed.ok THEN Raise(completed.err)
        ELSE Ok([x \in {"Acquired Time", "Sample Locked Run Mode", "Run Completed", "Label"} |->
                   CASE x = "Acquired Time" -> acq.val
                     [] x = "Sample Locked Run Mode" -> locked.val
                     [] x = "Run Completed" -> completed.val
                     [] OTHER -> Str(strip(element.Label))])

\* A variant of StaticTag that stores the value under the tag's name.
StaticTagByTag(acc, element, i) ==
    LET tag_name == sample_info_tags[i][1]
        attr_name == sample_info_tags[i][2]
    IN  IF ~acc.ok THEN acc
        ELSE IF ~DictHas(columns, attr_name) THEN Raise("KeyError")
        ELSE IF tag_name \notin DOMAIN element.tags THEN Raise("AttributeError")
        ELSE LET v == cast_value(DictGet(columns, attr_name), Str(strip(element.tags[tag_name])))
             IN  IF ~v.ok THEN Raise(v.err)
                 ELSE Ok(Put(acc.val, tag_name, v.val))

\* One turn of the loop over sample_info_tags (lines 117-120): the column is
\* looked up by display name, then the child is read and cast.
StaticTag(acc, element, i) ==
    LET tag_name == sample_info_tags[i][1]
        attr_name == sample_info_tags[i][2]
    IN  IF ~acc.ok THEN acc
        ELSE IF ~DictHas(columns, attr_name) THEN Raise("KeyError")
        ELSE IF tag_name \notin DOMAIN element.tags THEN Raise("AttributeError")
        ELSE LET v == cast_value(DictGet(columns, attr_name), Str(strip(element.tags[tag_name])))
             IN  IF ~v.ok THEN Raise(v.err)
                 ELSE Ok(Put(acc.val, attr_name, v.val))

RECURSIVE StaticTags(_, _, _)
StaticTags(acc, element, n) ==
    IF n = 0 THEN acc
    ELSE LET Turn(prev) == StaticTag(prev, element, n)
         IN  Bind(Turn, StaticTags(acc, element, n - 1))

\* A variant of the test of line 125 that takes every column for a match.
MatchesAnyColumn(column, attribute_id) == TRUE

\* The test of line 125 for one column of user_columns.
MatchesColumn(column, attribute_id) == column.attribute_id = attribute_id

\* A variant of UserColumnItem that stores the column's default value when
\* the child's AttributeID is not the column's.
UserColumnItemOrDefault(acc, tag, user_columns, i) ==
    IF ~acc.ok THEN acc
    ELSE LET id == py_int_text(tag.AttributeID)
             column == DictGet(user_columns, user_columns.keys[i])
         IN  IF ~id.ok THEN Raise(id.err)
             ELSE IF column.attribute_id = id.val.n
             THEN LET v == cast_value(column, Str(strip(tag.DataValue)))
                  IN  IF ~v.ok THEN Raise(v.err)
                      ELSE Ok(Put(acc.val, user_columns.keys[i], v.val))
             ELSE Ok(Put(acc.val, user_columns.keys[i], column.default_value))

\* One turn of the inner loop (lines 124-126) for item i of user_columns.
UserColumnItem(acc, tag, user_columns, i) ==
    IF ~acc.ok THEN acc
    ELSE LET id == py_int_text(tag.AttributeID)
         IN  IF ~id.ok THEN Raise(id.err)
             ELSE IF MatchesColumn(DictGet(user_columns, user_columns.keys[i]), id.val.n)
             THEN LET v == cast_value(DictGet(user_columns, user_columns.keys[i]),
                                      Str(strip(tag.DataValue)))
                  IN  IF ~v.ok THEN Raise(v.err)
                      ELSE Ok(Put(acc.val, user_columns.keys[i], v.val))
             ELSE acc

RECURSIVE UserColumnItems(_, _, _, _)
UserColumnItems(acc, tag, user_columns, n) ==
    IF n = 0 THEN acc
    ELSE LET Turn(prev) == UserColumnItem(prev, tag, user_columns, n)
         IN  Bind(Turn, UserColumnItems(acc, tag, user_columns, n - 1))

\* One SampleDataArray child (lines 123-126).
SampleDataArrayTag(acc, tag, user_columns) ==
    UserColumnItems(acc, tag, user_columns, Len(user_columns.keys))

\* A variant of SampleDataArrayTags that reads the children last one first.
RECURSIVE SampleDataArrayTagsLastFirst(_, _, _, _)
SampleDataArrayTagsLastFirst(acc, tags, user_columns, n) ==
    IF n = 0 THEN acc
    ELSE LET Turn(prev) == SampleDataArrayTag(prev, tags[n], user_columns)
         IN  SampleDataArrayTagsLastFirst(Bind(Turn, acc), tags, user_columns, n - 1)

\* The loop over the SampleDataArray children (line 123), in document order.
RECURSIVE SampleDataArrayTags(_, _, _, _)
SampleDataArrayTags(acc, tags, user_columns, n) ==
    IF n = 0 THEN acc
    ELSE LET Turn(prev) == SampleDataArrayTag(prev, tags[n], user_columns)
         IN  Bind(Turn, SampleDataArrayTags(acc, tags, user_columns, n - 1))

\* A variant of parse_sample_info that reads the static tags after the
\* SampleDataArray children.
parse_sample_info_static_last(element, user_columns) ==
    LET Static(dynamic) == StaticTags(dynamic, element, Len(sample_info_tags))
        Dynamic(derived) == SampleDataArrayTags(derived, element.SampleDataArray, user_columns,
                                                Len(element.SampleDataArray))
    IN  Bind(Static, Bind(Dynamic, DerivedFields(element)))

\* parse_sample_info
parse_sample_info(element, user_columns) ==
    LET Static(derived) == StaticTags(derived, element, Len(sample_info_tags))
        Dynamic(static) == SampleDataArrayTags(static, element.SampleDataArray, user_columns,
                                               Len(element.SampleDataArray))
    IN  Bind(Dynamic, Bind(Static, DerivedFields(element)))

\* The fields parse_params reads, in order: child tag, key, conversion.
ParamFields ==
    << <<"OperatorName", "operator_name", "str">>,
       <<"RunType", "run_type", "int">>,
       <<"MethodExecutionType", "method_execution_type", "str">>,
       <<"AcqMethodPath", "acq_method_path", "as_path">>,
       <<"DAMethodPath", "da_method_path", "as_path">>,
       <<"ExportOutputPath", "export_output_path", "as_path">>,
       <<"CombineExportOutput", "combine_export_output", "bool">>,
       <<"CombinedExportOutputFile", "combined_export_output_file", "as_path">>,
       <<"CombineOutputByPlate", "combine_output_by_plate", "bool">>,
       <<"SynchronousExecution", "synchronous_execution", "bool">>,
       <<"StopWorklistOnDAError", "stop_worklist_on_da_error", "bool">>,
       <<"OverlappedInjections", "overlapped_injections", "bool">>,
       <<"UseBarcode", "use_barcode", "bool">>,
       <<"InjectOnBarcodeMismatch", "inject_on_barcode_mismatch", "bool">>,
       <<"ThresholdDiskSpace", "threshold_disk_space", "int">>,
       <<"ReadyTimeOut", "ready_time_out", "int">>,
       <<"ClearRunCheckBox", "clear_run_checkbox", "bool">>,
       <<"UsePreWorklistMacro", "use_pre_worklist_macro", "bool">>,
       <<"PreWorklistMacro", "pre_worklist_macro", "macro">>,
       <<"UsePostWorklistMacro", "use_post_worklist_macro", "bool">>,
       <<"PostWorklistMacro", "post_worklist_macro", "macro">>,
       <<"RunAcqCleanMacroOnError", "run_acq_clean_macro_on_error", "bool">>,
       <<"AcqCleanMacro", "acq_clean_macro", "macro">>,
       <<"UsePostAnalysisMacro", "use_post_analysis_macro", "bool">>,
       <<"PostAnalysisMacro", "post_analysis_macro", "macro">>,
       <<"Description", "description", "strip">>,
       <<"PlateBarCodes", "plate_bar_codes", "element">> >>

-----------------------------------------------------------------------------
(* worklist_parser/classes.py *)

\* Macro.from_xml: five stripped strings and an int.
Macro_from_xml(element) ==
    LET odt == py_int_text(element.OutputDataType)
    IN  IF ~odt.ok THEN Raise(odt.err)
        ELSE Ok([project_name |-> strip_string(element.ProjectName),
                 procedure_name |-> strip_string(element.ProcedureName),
                 input_parameter |-> strip_string(element.InputParameter),
                 output_data_type |-> odt.val.n,
                 output_parameter |-> strip_string(element.OutputParameter),
                 display_string |-> strip_string(element.DisplayString)])

\* A variant of Macro_undefined that looks at the text fields only.
Macro_undefined_text_only(macro) ==
    /\ macro.project_name = ""
    /\ macro.procedure_name = ""
    /\ macro.input_parameter = ""
    /\ macro.output_parameter = ""
    /\ macro.display_string = ""

\* Macro.undefined
Macro_undefined(macro) ==
    /\ macro.project_name = ""
    /\ macro.procedure_name = ""
    /\ macro.input_parameter = ""
    /\ macro.output_data_type = 0
    /\ macro.output_parameter = ""
    /\ macro.display_string = ""

\* The conversion parse_params applies to one child.
ParamValue(kind, child) ==
    CASE kind = "str" -> Ok(py_str_text(child))
      [] kind = "int" -> py_int_text(child)
      [] kind = "as_path" -> as_path(py_str_text(child))
      [] kind = "bool" -> element_to_bool(child)
      [] kind = "macro" -> Macro_from_xml(child)
      [] kind = "strip" -> Ok(Str(strip(child)))
      [] OTHER -> Ok(child)

RECURSIVE ParamsUpTo(_, _)
ParamsUpTo(element, n) ==
    IF n = 0 THEN Ok([x \in {} |-> None])
    ELSE LET field == ParamFields[n]
             Turn(acc) ==
                 IF ~acc.ok THEN acc
                 ELSE IF field[1] \notin DOMAIN element THEN Raise("AttributeError")
                 ELSE LET v == ParamValue(field[3], element[field[1]])
                      IN  IF ~v.ok THEN Raise(v.err)
                          ELSE Ok(Put(acc.val, field[2], v.val))
         IN  Bind(Turn, ParamsUpTo(element, n - 1))

\* parse_params (parser.py)
parse_params(element) == ParamsUpTo(element, Len(ParamFields))

\* Checksum.from_xml: two ints and a string, read from XML attributes.
Checksum_from_xml(element) ==
    LET schema == py_int_text(element.SchemaVersion)
        algo == py_int_text(element.ALGO_VERSION)
    IN  IF ~schema.ok THEN Raise(schema.err)
        ELSE IF ~algo.ok THEN Raise(algo.err)
        ELSE Ok([SchemaVersion |-> schema.val.n,
                 ALGO_VERSION |-> algo.val.n,
                 HASHCODE |-> py_str_text(element.HASHCODE)])

\* Attribute.from_xml: the converters of the ten fields, in field order.
Attribute_from_xml(element) ==
    LET attribute_id == py_int_text(element.AttributeID)
        type_value == py_int_text(element.AttributeType)
        attribute_type == IF type_value.ok THEN AttributeType(type_value.val) ELSE type_value
        field_type == py_int_text(element.FieldType)
        data_type == py_int_text(element.DataType)
        reorder_id == py_int_text(element.ReorderID)
        show_hide_status == element_to_bool(element.ShowHideStatus)
        column_width == py_int_text(element.ColumnWidth)
    IN  IF ~attribute_id.ok THEN Raise(attribute_id.err)
        ELSE IF ~attribute_type.ok THEN Raise(attribute_type.err)
        ELSE IF ~field_type.ok THEN Raise(field_type.err)
        ELSE IF ~data_type.ok THEN Raise(data_type.err)
        ELSE IF ~reorder_id.ok THEN Raise(reorder_id.err)
        ELSE IF ~show_hide_status.ok THEN Raise(show_hide_status.err)
        ELSE IF ~column_width.ok THEN Raise(column_width.err)
        ELSE Ok([attribute_id |-> attribute_id.val.n,
                 attribute_type |-> attribute_type.val,
                 field_type |-> field_type.val.n,
                 system_name |-> strip_string(element.SystemName),
                 header_name |-> strip_string(element.HeaderName),
                 data_type |-> data_type.val.n,
                 default_data_value |-> strip_string(element.DefaultDataValue),
                 reorder_id |-> reorder_id.val.n,
                 show_hide_status |-> show_hide_status.val.n = 1,
                 column_width |-> column_width.val.n])

\* str(val) as text: the whitespace around a str stays around it.
str_text(v) ==
    IF v.k = "str" THEN [lead |-> v.n, body |-> v.s, trail |-> 0] ELSE Text(py_str(v).s)

\* The identifiers of the model, in the form str(uuid.UUID) prints.
UUIDs == {"fd6a7c1b-6e4e-4b8e-9f57-0c5e2a6f4d11", "b1f6e4d5-a300-40df-8fb0-2a26fd8b8c0c"}

\* The identifier a string denotes to uuid.UUID, which drops "urn:uuid:",
\* braces and hyphens and reads 32 hexadecimal digits of either case; "" for
\* a string that is not an identifier.
UUIDHex(s) ==
    CASE s \in {"fd6a7c1b-6e4e-4b8e-9f57-0c5e2a6f4d11",
                "{FD6A7C1B-6E4E-4B8E-9F57-0C5E2A6F4D11}",
                "urn:uuid:fd6a7c1b-6e4e-4b8e-9f57-0c5e2a6f4d11",
                "fd6a7c1b6e4e4b8e9f570c5e2a6f4d11"} -> "fd6a7c1b-6e4e-4b8e-9f57-0c5e2a6f4d11"
      [] s \in {"b1f6e4d5-a300-40df-8fb0-2a26fd8b8c0c",
                "{B1F6E4D5-A300-40DF-8FB0-2A26FD8B8C0C}",
                "urn:uuid:b1f6e4d5-a300-40df-8fb0-2a26fd8b8c0c",
                "B1F6E4D5A30040DF8FB02A26FD8B8C0C"} -> "b1f6e4d5-a300-40df-8fb0-2a26fd8b8c0c"
      [] OTHER -> ""

\* A variant of UUID that keeps the identifier as it was written.
UUIDAsWritten(t) ==
    IF UUIDHex(t.body) # "" /\ t.lead = 0 /\ t.trail = 0
    THEN Ok([k |-> "uuid", s |-> t.body, n |-> 0])
    ELSE Raise("ValueError")

\* uuid.UUID(text); text with whitespace around it is not an identifier.
UUID(t) ==
    IF UUIDHex(t.body) # "" /\ t.lead = 0 /\ t.trail = 0
    THEN Ok([k |-> "uuid", s |-> UUIDHex(t.body), n |-> 0])
    ELSE Raise("ValueError")

\* x is a Python value; otherwise it is the text of an XML element.
IsValue(x) == "k" \in DOMAIN x

\* JobData.__init__: a UUID is kept, any other id goes through UUID(str(id));
\* a missing or empty sample_info becomes {}.
JobData(id, job_type, run_status, sample_info) ==
    LET the_id == IF IsValue(id)
                  THEN IF id.k = "uuid" THEN Ok(id) ELSE UUID(str_text(id))
                  ELSE UUID(id)
        the_type == IF IsValue(job_type) THEN py_int(job_type) ELSE py_int_text(job_type)
        the_status == IF IsValue(run_status) THEN py_int(run_status) ELSE py_int_text(run_status)
    IN  IF ~the_id.ok THEN Raise(the_id.err)
        ELSE IF ~the_type.ok THEN Raise(the_type.err)
        ELSE IF ~the_status.ok THEN Raise(the_status.err)
        ELSE Ok([id |-> the_id.val,
                 job_type |-> the_type.val.n,
                 run_status |-> the_status.val.n,
                 sample_info |-> IF sample_info # None /\ DOMAIN sample_info # {}
                                 THEN sample_info
                                 ELSE [x \in {} |-> None]])

\* JobData.from_xml: the sample info is parsed before the constructor runs.
JobData_from_xml(element, user_columns) ==
    LET Construct(sample_info) ==
            IF ~sample_info.ok THEN Raise(sample_info.err)
            ELSE JobData(element.ID, element.JobType, element.RunStatus, sample_info.val)
    IN  Bind(Construct, parse_sample_info(element.SampleInfo, user_columns))

\* Worklist.__init__
Worklist(version, locked_run_mode, instrument_name, params, user_columns, jobs, checksum) ==
    [version |-> version,
     locked_run_mode |-> locked_run_mode,
     instrument_name |-> instrument_name,
     params |-> params,
     user_columns |-> user_columns,
     jobs |-> jobs,
     checksum |-> checksum]

\* A variant of the test on LockedRunMode that takes every value but 0 for True.
LockedRunModeTruthy(value) ==
    IF value = 0 THEN Ok(Bool(FALSE)) ELSE Ok(Bool(TRUE))

\* The test on LockedRunMode in Worklist.from_xml (lines 189-194).
LockedRunMode(value) ==
    IF value = -1 THEN Ok(Bool(TRUE))
    ELSE IF value = 0 THEN Ok(Bool(FALSE))
    ELSE Raise("ValueError: Unknown value for 'LockedRunMode'")

\* A variant of the test of line 208 that gives a Column to UserAdded
\* attributes only.
IsUserAdded(attribute) == attribute.attribute_type = UserAdded

\* A variant of the test of line 208 that gives a Column to every attribute.
IsAttribute(attribute) == TRUE

\* Line 208: the attributes that get a Column.
IsUserColumn(attribute) == attribute.attribute_type # SystemDefined

\* headers of as_dataframe (line 237)
\* A variant of the headers of line 237 that lists the user columns first.
HeadersUserFirst(user_columns) == DictKeys(user_columns) \o DictKeys(columns)

\* Line 237: the headers of as_dataframe.
Headers(user_columns) == DictKeys(columns) \o DictKeys(user_columns)

\* A variant of Row that fills the cell of a missing header with None.
RowOrNone(job, headers) ==
    Ok([h \in 1..Len(headers) |->
           IF headers[h] \in DOMAIN job.sample_info THEN job.sample_info[headers[h]]
           ELSE None])

\* One row of as_dataframe (lines 241-244): job.sample_info[header_label].
Row(job, headers) ==
    IF \E h \in 1..Len(headers) : headers[h] \notin DOMAIN job.sample_info
    THEN Raise("KeyError")
    ELSE Ok([h \in 1..Len(headers) |-> job.sample_info[headers[h]]])

\* A variant of as_dataframe that emits the rows last job first.
as_dataframe_reversed(self) ==
    LET headers == Headers(self.user_columns)
        n == Len(self.jobs)
    IN  IF \E j \in 1..n : ~Row(self.jobs[j], headers).ok
        THEN Raise("KeyError")
        ELSE Ok([columns |-> headers,
                 data |-> [j \in 1..n |-> Row(self.jobs[n + 1 - j], headers).val]])

\* Worklist.as_dataframe
as_dataframe(self) ==
    LET headers == Headers(self.user_columns)
    IN  IF \E j \in 1..Len(self.jobs) : ~Row(self.jobs[j], headers).ok
        THEN Raise("KeyError")
        ELSE Ok([columns |-> headers,
                 data |-> [j \in 1..Len(self.jobs) |-> Row(self.jobs[j], headers).val]])

-----------------------------------------------------------------------------
(* The documents explored *)

VersionTexts == {Text("2.6"), Text("")}

ChecksumElements ==
    {[SchemaVersion |-> Text("1"), ALGO_VERSION |-> Text("2"), HASHCODE |-> Text("abcdefg")],
     [SchemaVersion |-> Text("1"), ALGO_VERSION |-> Text("two"), HASHCODE |-> Text("abcdefg")]}

LockedRunModes == -100..100

InstrumentTexts == {Text("The Instrument")}

MacroElement(output_data_type) ==
    [ProjectName |-> Text(""), ProcedureName |-> Padded(""), InputParameter |-> Text(""),
     OutputDataType |-> output_data_type, OutputParameter |-> Text(""),
     DisplayString |-> Text("")]

ParamTags == {ParamFields[i][1] : i \in 1..Len(ParamFields)}
ParamKind(tag) == ParamFields[CHOOSE i \in 1..Len(ParamFields) : ParamFields[i][1] = tag][3]
GoodParams ==
    [tag \in ParamTags |->
        CASE ParamKind(tag) = "int" -> Text("0")
          [] ParamKind(tag) = "bool" -> Text("False")
          [] ParamKind(tag) = "macro" -> MacroElement(Text("0"))
          [] OTHER -> Text("")]

ParamsElements ==
    {GoodParams,
     [GoodParams EXCEPT !["RunType"] = Text("x")],
     [GoodParams EXCEPT !["UseBarcode"] = Text("maybe")],
     [GoodParams EXCEPT !["AcqCleanMacro"] = MacroElement(Text(""))],
     [tag \in ParamTags \ {"Description"} |-> GoodParams[tag]]}

AttributeElement(id, type, header, data_type, default) ==
    [AttributeID |-> Text(id), AttributeType |-> Text(type), FieldType |-> Text(id),
     SystemName |-> Text(""), HeaderName |-> header, DataType |-> Text(data_type),
     DefaultDataValue |-> default, ReorderID |-> Text(id),
     ShowHideStatus |-> Text("False"), ColumnWidth |-> Text("99")]

AttributeElements ==
    {AttributeElement("30", "2", Padded("Drying Gas"), "8", Text("")),
     AttributeElement("31", "1", Text("Gas Temp"), "5", Padded("200")),
     AttributeElement("0", "0", Text("Sample ID"), "8", Text("")),
     AttributeElement("31", "2", Text("Drying Gas"), "1", Text("5")),
     AttributeElement("99", "2", Text("Nebulizer"), "5", Text("")),
     AttributeElement("99", "5", Text("Nebulizer"), "8", Text("")),
     [AttributeElement("99", "2", Text("Nebulizer"), "8", Text(""))
        EXCEPT !.ShowHideStatus = Text("maybe")]}

GoodTags == [tag \in TagNames |-> Text("")]

SampleInfoElement(acq, locked, label, tags, data) ==
    [AcqTime |-> acq, SampleLockedRunMode |-> locked, RunCompletedFlag |-> Text("-1"),
     Label |-> label, tags |-> tags, SampleDataArray |-> data]

DataChild(id, value) == [AttributeID |-> id, DataValue |-> value]

DataChildren == {DataChild(Text("30"), Padded("200"))}

RECURSIVE SeqsUpTo(_, _)
SeqsUpTo(S, n) ==
    IF n = 0 THEN {<< >>}
    ELSE LET shorter == SeqsUpTo(S, n - 1)
         IN  shorter \cup {Append(q, x) : q \in {r \in shorter : Len(r) = n - 1}, x \in S}

DataLists == SeqsUpTo(DataChildren, MaxData)

SampleInfoElements ==
    {SampleInfoElement(Text(""), Text("0"), Padded("a"), GoodTags, data) : data \in DataLists}
    \cup
    {SampleInfoElement(Padded("2019-11-21T15:54:01.1234567+00:00"), Text("-1"), Text("b"),
        [GoodTags EXCEPT !["InjectionVolume"] = Text("-1"), !["Name"] = Padded("Blank"),
                         !["AcqMethod"] = Text("D:\\m.m"), !["WeightPerVolume"] = Text("1.5")],
        data) : data \in {<< >>}}
    \cup
    {SampleInfoElement(Text("yesterday"), Text("0"), Text("a"), GoodTags, << >>),
     SampleInfoElement(Text(""), Text("maybe"), Text("a"), GoodTags, << >>),
     SampleInfoElement(Text(""), Text("0"), Text("a"),
        [GoodTags EXCEPT !["EquilibrationTime"] = Text("1.5")], << >>),
     SampleInfoElement(Text(""), Text("0"), Text("a"),
        [tag \in TagNames \ {"Barcode"} |-> Text("")], << >>),
     SampleInfoElement(Text(""), Text("0"), Text("a"), GoodTags,
        << DataChild(Text("x"), Text("5")) >>),
     SampleInfoElement(Text(""), Text("0"), Padded("a"), GoodTags,
        << DataChild(Text("31"), Text("x")) >>),
     SampleInfoElement(Text(""), Text("0"), Padded("a"), GoodTags,
        << DataChild(Text("30"), Text("5")), DataChild(Text("31"), Text("x")) >>),
     SampleInfoElement(Text(""), Text("0"), Padded("a"), GoodTags,
        << DataChild(Text("99"), Text("5")), DataChild(Padded("31"), Padded("")) >>)}

JobElements ==
    {[ID |-> Text("fd6a7c1b-6e4e-4b8e-9f57-0c5e2a6f4d11"), JobType |-> Text("1"),
      RunStatus |-> Text("2"), SampleInfo |-> info] : info \in SampleInfoElements}
    \cup
    {[ID |-> Text("not-a-uuid"), JobType |-> Text("1"), RunStatus |-> Text("2"),
      SampleInfo |-> SampleInfoElement(Text(""), Text("0"), Text("a"), GoodTags, << >>)]}

-----------------------------------------------------------------------------
(* Worklist.from_xml followed by Worklist.as_dataframe, one step per        *)
(* statement or loop turn.  The document is read as the code reaches it:    *)
(* `root` fixes how many Attributes and JobData children it has, each       *)
(* action draws the element it reads from the documents above and records   *)
(* it in `root` (of the JobData children only the last one, in `job`).      *)

VARIABLES
    root,             \* the document: n_attributes and n_jobs, the numbers of children
                      \* of its two lists; LockedRunMode, << >> until read; Attributes,
                      \* the Attributes children read so far
    pc,               \* the statement Worklist.from_xml is at
    version, checksum, locked_run_mode, instrument_name, params,
    attributes_list, user_columns,
    job,              \* the JobData element the loop of line 212 read last
    jobs_list,
    worklist,         \* << >> until from_xml returns, then <<the Worklist>>
    error,            \* the exception that left from_xml or as_dataframe, or ""
    table,            \* << >>, then <<the DataFrame>> once as_dataframe returned
    call,             \* a function of the package called on its own: its name and
                      \* its arguments
    result            \* the outcomes of the calls of `call` made so far

header_vars == <<version, checksum, locked_run_mode, instrument_name, params>>
attr_vars == <<attributes_list, user_columns>>
job_vars == <<job, jobs_list>>
call_vars == <<call, result>>
vars == <<root, columns, pc, header_vars, attr_vars, job_vars, worklist, error, table,
          call_vars>>

Unset == [k |-> "unset", s |-> "", n |-> 0]
NoCall == [fn |-> "", args |-> << >>]

Init ==
    /\ root \in [n_attributes : 0..MaxAttrs, n_jobs : 0..MaxJobs,
                  LockedRunMode : {<< >>}, Attributes : {<< >>}]
    /\ columns = ColumnsAtImport
    /\ pc = "Version"
    /\ version = Unset /\ checksum = Unset /\ locked_run_mode = Unset
    /\ instrument_name = Unset /\ params = Unset
    /\ attributes_list = << >> /\ user_columns = EmptyDict
    /\ job = Unset /\ jobs_list = << >>
    /\ worklist = << >> /\ error = "" /\ table = << >>
    /\ call = NoCall /\ result = << >>

\* A variant of LoopPc in which the loop over the JobData children runs
\* before the loop over the Attributes children.
LoopPcJobsFirst(done_attributes, done_jobs) ==
    IF done_jobs < root.n_jobs THEN "JobData"
    ELSE IF done_attributes < root.n_attributes THEN "Attributes"
    ELSE "Return"

\* The statement that follows the loops once `done_attributes` Attributes and
\* `done_jobs` JobData children have been decoded.
LoopPc(done_attributes, done_jobs) ==
    IF done_attributes < root.n_attributes THEN "Attributes"
    ELSE IF done_jobs < root.n_jobs THEN "JobData"
    ELSE "Return"

\* A variant of Fail that returns a Worklist of what was decoded before the
\* exception.
FailWithPartial(e) ==
    /\ pc' = "Failed"
    /\ error' = e
    /\ worklist' = << Worklist(version, locked_run_mode.n = 1, instrument_name, params,
                               user_columns, jobs_list, checksum) >>
    /\ UNCHANGED <<columns, table>>

\* An exception leaves from_xml: nothing is returned.
Fail(e) ==
    /\ pc' = "Failed"
    /\ error' = e
    /\ UNCHANGED <<columns, worklist, table>>

\* line 184
ReadVersion ==
    /\ pc = "Version"
    /\ \E t \in VersionTexts :
         \E r \in {py_float(Str(strip(t)))} :
             IF r.ok
             THEN /\ version' = r.val
                  /\ pc' = "Checksum"
                  /\ UNCHANGED <<columns, worklist, error, table>>
             ELSE /\ Fail(r.err)
                  /\ UNCHANGED version
    /\ UNCHANGED <<root, checksum, locked_run_mode, instrument_name, params, attr_vars, job_vars>>
    /\ UNCHANGED call_vars

\* line 185
ReadChecksum ==
    /\ pc = "Checksum"
    /\ \E element \in ChecksumElements :
         \E r \in {Checksum_from_xml(element)} :
             IF r.ok
             THEN /\ checksum' = r.val
                  /\ pc' = "LockedRunMode"
                  /\ UNCHANGED <<columns, worklist, error, table>>
             ELSE /\ Fail(r.err)
                  /\ UNCHANGED checksum
    /\ UNCHANGED <<root, version, locked_run_mode, instrument_name, params, attr_vars, job_vars>>
    /\ UNCHANGED call_vars

\* lines 189-194, the LockedRunMode child holding `value`
ReadLockedRunModeOf(value) ==
    /\ pc = "LockedRunMode"
    /\ \E r \in {LockedRunMode(value)} :
         /\ root' = [root EXCEPT !.LockedRunMode = << value >>]
         /\ IF r.ok
            THEN /\ locked_run_mode' = r.val
                 /\ pc' = "Instrument"
                 /\ UNCHANGED <<columns, worklist, error, table>>
            ELSE /\ Fail(r.err)
                 /\ UNCHANGED locked_run_mode
    /\ UNCHANGED <<version, checksum, instrument_name, params, attr_vars, job_vars>>
    /\ UNCHANGED call_vars

\* lines 189-194
ReadLockedRunMode ==
    /\ pc = "LockedRunMode"
    /\ \E value \in LockedRunModes : ReadLockedRunModeOf(value)

\* line 196
ReadInstrument ==
    /\ pc = "Instrument"
    /\ \E t \in InstrumentTexts : instrument_name' = py_str_text(t)
    /\ pc' = "Params"
    /\ UNCHANGED <<root, columns, version, checksum, locked_run_mode, params, attr_vars, job_vars,
                   worklist, error, table>>
    /\ UNCHANGED call_vars

\* lines 197-202, the Params child being `element`
ReadParamsOf(element) ==
    /\ pc = "Params"
    /\ \E r \in {parse_params(element)} :
         IF r.ok
         THEN /\ params' = r.val
              /\ pc' = LoopPc(0, 0)
              /\ UNCHANGED <<columns, worklist, error, table>>
         ELSE /\ Fail(r.err)
              /\ UNCHANGED params
    /\ UNCHANGED <<root, version, checksum, locked_run_mode, instrument_name, attr_vars, job_vars>>
    /\ UNCHANGED call_vars

\* lines 197-202
ReadParams ==
    /\ pc = "Params"
    /\ \E element \in ParamsElements : ReadParamsOf(element)

\* lines 204-210: one turn of the loop over the Attributes children, the
\* child of this turn being `element`
DecodeAttributeOf(element) ==
    /\ pc = "Attributes"
    /\ \E decoded \in {Attribute_from_xml(element)} :
         /\ root' = [root EXCEPT !.Attributes = Append(@, element)]
         /\ IF ~decoded.ok
            THEN Fail(decoded.err) /\ UNCHANGED <<attributes_list, user_columns>>
            ELSE /\ attributes_list' = Append(attributes_list, decoded.val)
                 /\ IF ~IsUserColumn(decoded.val)
                    THEN /\ UNCHANGED user_columns
                         /\ pc' = LoopPc(Len(attributes_list) + 1, 0)
                         /\ UNCHANGED <<columns, worklist, error, table>>
                    ELSE \E column \in {from_attribute(decoded.val)} :
                           IF ~column.ok
                           THEN Fail(column.err) /\ UNCHANGED user_columns
                           ELSE /\ user_columns' =
                                    DictSet(user_columns, column.val.name, column.val)
                                /\ pc' = LoopPc(Len(attributes_list) + 1, 0)
                                /\ UNCHANGED <<columns, worklist, error, table>>
    /\ UNCHANGED <<header_vars, job_vars>>
    /\ UNCHANGED call_vars

\* lines 204-210: one turn of the loop over the Attributes children
DecodeAttribute ==
    /\ pc = "Attributes"
    /\ \E element \in AttributeElements : DecodeAttributeOf(element)

\* lines 212-213: one turn of the loop over the JobData children, the child
\* of this turn being `element`
DecodeJobOf(element) ==
    /\ pc = "JobData"
    /\ \E r \in {JobData_from_xml(element, user_columns)} :
         /\ job' = element
         /\ IF r.ok
            THEN /\ jobs_list' = Append(jobs_list, r.val)
                 /\ pc' = LoopPc(root.n_attributes, Len(jobs_list) + 1)
                 /\ UNCHANGED <<columns, worklist, error, table>>
            ELSE /\ Fail(r.err)
                 /\ UNCHANGED jobs_list
    /\ UNCHANGED <<root, header_vars, attr_vars>>
    /\ UNCHANGED call_vars

\* lines 212-213: one turn of the loop over the JobData children
DecodeJob ==
    /\ pc = "JobData"
    /\ \E element \in JobElements : DecodeJobOf(element)

\* lines 215-223
Return ==
    /\ pc = "Return"
    /\ worklist' = << Worklist(version, locked_run_mode.n = 1, instrument_name, params,
                               user_columns, jobs_list, checksum) >>
    /\ pc' = "Done"
    /\ UNCHANGED <<root, columns, header_vars, attr_vars, job_vars, error, table>>
    /\ UNCHANGED call_vars

\* Worklist.as_dataframe on the Worklist returned
AsDataframe ==
    /\ pc = "Done"
    /\ \E r \in {as_dataframe(worklist[1])} :
           IF r.ok
           THEN /\ table' = << r.val >>
                /\ pc' = "Table"
                /\ UNCHANGED error
           ELSE /\ pc' = "TableFailed"
                /\ error' = r.err
                /\ UNCHANGED table
    /\ UNCHANGED <<root, columns, header_vars, attr_vars, job_vars, worklist>>
    /\ UNCHANGED call_vars

Next ==
    \/ ReadVersion
    \/ ReadChecksum
    \/ ReadLockedRunMode
    \/ ReadInstrument
    \/ ReadParams
    \/ DecodeAttribute
    \/ DecodeJob
    \/ Return
    \/ AsDataframe

Spec == Init /\ [][Next]_vars

-----------------------------------------------------------------------------
(* The functions of the package called on their own *)

\* The number of times a call is repeated.
MaxCalls == 2

\* The length of the strings given character by character.
MaxChars == 3

\* The variables of the assembly of a Worklist, which a call leaves alone.
assembly_vars == <<root, pc, header_vars, attr_vars, job_vars, worklist, error, table>>

\* The values handed to the functions: strings (empty, of whitespace only,
\* padded, numeric or not), None, booleans, ints and floats.
Whitespace(n) == [k |-> "str", s |-> "", n |-> n]
PaddedStr(s) == [k |-> "str", s |-> s, n |-> 2]
Values ==
    {Str(""), Whitespace(1), Whitespace(2), Str("abc"), Str("5"), PaddedStr("5"),
     Str("1.5"), Str("-1"), PaddedStr("-1"), Str("12"), PaddedStr("12"),
     None, Bool(FALSE), Bool(TRUE),
     Int_(-1), Int_(0), Int_(1), Int_(5), Int_(50), Float(0), Float(15), Float(-10)}

\* The column of the tests of cast_value (_TestObj and its variations).
TestColumn(dtype, default_value) ==
    Column(Text("Test Column"), 1, SystemUsed, dtype, default_value, <<>>, <<>>)

\* The columns cast_value is called on: those of the tests and every static
\* column.
CastColumns ==
    {TestColumn(dtype, Str("The Default")).val : dtype \in {"str", "Any"}}
    \cup {TestColumn("float", Str("12")).val, TestColumn("int", Int_(5)).val,
          TestColumn("Any", None).val}
    \cup {StaticColumns[i] : i \in DOMAIN StaticColumns}

CastValueCalls ==
    {[fn |-> "cast_value", args |-> <<c, v>>] : c \in CastColumns, v \in Values}

\* An Attributes element with a FieldType and a ReorderID of its own.
DescriptorElement(id, type, field_type, header, data_type, default, reorder_id) ==
    [AttributeElement(id, type, header, data_type, default)
       EXCEPT !.FieldType = Text(field_type), !.ReorderID = Text(reorder_id)]

\* The elements the descriptors handed to from_attribute are decoded from.
DescriptorElements ==
    {DescriptorElement(id, type, field_type, header, data_type, default, reorder_id) :
       id \in {"30", "50"}, type \in {"0", "1", "2"}, field_type \in {"8", "0"},
       header \in {Text("Drying Gas"), Padded("Gas Temp")},
       data_type \in {"8", "5", "1", "0"},
       default \in {Text(""), Padded("abc"), Padded("1.5"), Padded("12")},
       reorder_id \in {"12", "-1"}}

\* The Attribute objects from_attribute is called on.
Descriptors ==
    {d.val : d \in {r \in {Attribute_from_xml(e) : e \in DescriptorElements} : r.ok}}

FromAttributeCalls == {[fn |-> "from_attribute", args |-> <<a>>] : a \in Descriptors}

\* The dtypes a Column is given: str, float, int, the two functions of the
\* package and typing.Any.
Dtypes == {"str", "float", "int", "as_path", "injection_volume", "Any"}

\* The arguments Column(...) is called with; <<>> is an argument left out.
ColumnCalls ==
    {[fn |-> "Column",
      args |-> <<[name |-> Padded("Test Column"), attribute_id |-> attribute_id,
                  attribute_type |-> attribute_type, dtype |-> dtype,
                  default_value |-> default_value, field_type |-> field_type,
                  reorder_id |-> reorder_id]>>] :
       attribute_id \in {0, 1}, attribute_type \in {SystemDefined, UserAdded},
       dtype \in Dtypes, default_value \in Values,
       field_type \in {<< >>, <<0>>, <<-1>>, <<7>>}, reorder_id \in {<< >>, <<0>>, <<22>>}}

\* The volumes injection_volume is called on: every integer of the model from
\* -1 up, as an int and in its string form, and -1.0.
InjectionVolumeCalls ==
    {[fn |-> "injection_volume", args |-> <<v>>] :
       v \in {Int_(IntOf(s)) : s \in {t \in IntLiterals : IntOf(t) >= -1}}
              \cup {Str(s) : s \in {t \in IntLiterals : IntOf(t) >= -1}}
              \cup {Float(-10)}}

\* The words element_to_bool is called on, in several letter cases, and words
\* it does not know.
BoolWords ==
    {"y", "Y", "yes", "YES", "Yes", "yEs", "t", "T", "true", "TRUE", "True", "tRUe",
     "on", "ON", "On", "oN", "1", "-1",
     "n", "N", "no", "NO", "No", "nO", "f", "F", "false", "FALSE", "False", "falSE",
     "off", "OFF", "Off", "oFF", "0",
     "truthy", "Truthy", "foo", "bar", "50", "2", "-2", "1.0", "0.0", "", "None"}

\* The values element_to_bool is called on: each word bare and with
\* whitespace around it, and values that are not strings.
ElementToBoolCalls ==
    {[fn |-> "element_to_bool", args |-> <<v>>] :
       v \in {Str(w) : w \in BoolWords} \cup {PaddedStr(w) : w \in BoolWords}
              \cup {Int_(-1), Int_(0), Int_(1), Int_(50), Float(10), Float(0), None,
                    Bool(TRUE), Bool(FALSE)}}

\* The Attributes elements Attribute.from_xml is called on: every integer of
\* the model as AttributeType, bare and with whitespace around it, the other
\* children good or, for ShowHideStatus, not a boolean word.
AttributeFromXmlCalls ==
    {[fn |-> "Attribute.from_xml",
      args |-> <<[AttributeElement("30", "0", Text("Drying Gas"), data_type, Text(""))
                    EXCEPT !.AttributeType = type, !.ShowHideStatus = Text(show)]>>] :
       type \in {Text(t) : t \in IntLiterals} \cup {Padded(t) : t \in IntLiterals},
       data_type \in {"8", "5", "1"}, show \in {"False", "-1", "maybe"}}

\* The characters of the strings given character by character: the four
\* whitespace characters and one that is not whitespace.
WhitespaceChars == {" ", "\t", "\n", "\r"}
Chars == WhitespaceChars \cup {"x"}

\* str.lstrip() and str.rstrip() on a sequence of characters.
RECURSIVE lstrip(_)
lstrip(chars) ==
    IF chars # << >> /\ Head(chars) \in WhitespaceChars THEN lstrip(Tail(chars)) ELSE chars
RECURSIVE rstrip(_)
rstrip(chars) ==
    IF chars # << >> /\ chars[Len(chars)] \in WhitespaceChars
    THEN rstrip(SubSeq(chars, 1, Len(chars) - 1))
    ELSE chars

\* The str made of the characters.
RECURSIVE Join(_)
Join(chars) == IF chars = << >> THEN "" ELSE Head(chars) \o Join(Tail(chars))

\* The text of a str given character by character: what strip() leaves, and
\* how many characters it removes on each side.
StrOfChars(chars) ==
    LET left == lstrip(chars)
        core == rstrip(left)
    IN  [lead |-> Len(chars) - Len(left), body |-> Join(core), trail |-> Len(left) - Len(core)]

ParseDatetimeCalls ==
    {[fn |-> "parse_datetime", args |-> <<chars>>] : chars \in SeqsUpTo(Chars, MaxChars)}

\* An identifier as a uuid.UUID object.
UUIDObject(hex) == [k |-> "uuid", s |-> hex, n |-> 0]

\* The arguments JobData(...) is called with: ids as strings in several
\* written forms and as UUID objects, job_type and run_status as ints and as
\* strings, sample_info left out (<<>>), empty or not.
JobDataCalls ==
    {[fn |-> "JobData",
      args |-> <<[id |-> id, job_type |-> job_type, run_status |-> run_status,
                  sample_info |-> sample_info]>>] :
       id \in {UUIDObject(hex) : hex \in UUIDs}
               \cup {Str(s) : s \in {"fd6a7c1b-6e4e-4b8e-9f57-0c5e2a6f4d11",
                                      "{FD6A7C1B-6E4E-4B8E-9F57-0C5E2A6F4D11}",
                                      "fd6a7c1b6e4e4b8e9f570c5e2a6f4d11",
                                      "{B1F6E4D5-A300-40DF-8FB0-2A26FD8B8C0C}",
                                      "urn:uuid:b1f6e4d5-a300-40df-8fb0-2a26fd8b8c0c",
                                      "not an id"}},
       job_type \in {Int_(8), Str("8"), Int_(0), Str("abc")},
       run_status \in {Int_(1), Str("1"), PaddedStr("1")},
       sample_info \in {<< >>, <<[x \in {} |-> None]>>, <<("foo" :> Str("a string"))>>}}

\* The Macro elements whose `undefined` is read: each text child empty, of
\* whitespace only, or holding text; OutputDataType zero or not.
MacroTexts == {Text(""), Padded(""), Padded("a")}
MacroCalls ==
    {[fn |-> "Macro.undefined",
      args |-> <<[ProjectName |-> project, ProcedureName |-> procedure,
                  InputParameter |-> input, OutputDataType |-> type,
                  OutputParameter |-> output, DisplayString |-> display]>>] :
       project \in MacroTexts, procedure \in MacroTexts, input \in MacroTexts,
       type \in {Text("0"), Padded("0"), Text("1"), Text("-1")},
       output \in MacroTexts, display \in MacroTexts}

\* The state before a function is called on its own: the table of columns as
\* at import, no document being decoded.
InitCalls ==
    /\ root = [n_attributes |-> 0, n_jobs |-> 0, LockedRunMode |-> << >>, Attributes |-> << >>]
    /\ columns = ColumnsAtImport
    /\ pc = "Call"
    /\ version = Unset /\ checksum = Unset /\ locked_run_mode = Unset
    /\ instrument_name = Unset /\ params = Unset
    /\ attributes_list = << >> /\ user_columns = EmptyDict
    /\ job = Unset /\ jobs_list = << >>
    /\ worklist = << >> /\ error = "" /\ table = << >>
    /\ \/ call \in CastValueCalls
       \/ call \in FromAttributeCalls
       \/ call \in ColumnCalls
       \/ call \in InjectionVolumeCalls
       \/ call \in ElementToBoolCalls
       \/ call \in AttributeFromXmlCalls
       \/ call \in ParseDatetimeCalls
       \/ call \in JobDataCalls
       \/ call \in MacroCalls
    /\ result = << >>

\* column.cast_value(value)
CallCastValue ==
    /\ pc = "Call" /\ call.fn = "cast_value" /\ Len(result) < MaxCalls
    /\ result' = Append(result, cast_value(call.args[1], call.args[2]))
    /\ UNCHANGED <<assembly_vars, columns, call>>

\* A variant of CallFromAttribute that also enters the new Column in the
\* table of static columns.
CallFromAttributeRegistering ==
    /\ pc = "Call" /\ call.fn = "from_attribute" /\ Len(result) < MaxCalls
    /\ \E r \in {from_attribute(call.args[1])} :
          /\ result' = Append(result, r)
          /\ columns' = IF r.ok THEN DictSet(columns, r.val.name, r.val) ELSE columns
    /\ UNCHANGED <<assembly_vars, call>>

\* Column.from_attribute(attribute)
CallFromAttribute ==
    /\ pc = "Call" /\ call.fn = "from_attribute" /\ Len(result) < MaxCalls
    /\ result' = Append(result, from_attribute(call.args[1]))
    /\ UNCHANGED <<assembly_vars, columns, call>>

\* Column(name=..., ..., reorder_id=...)
CallColumn ==
    /\ pc = "Call" /\ call.fn = "Column" /\ Len(result) < MaxCalls
    /\ LET a == call.args[1]
       IN  result' = Append(result, Column(a.name, a.attribute_id, a.attribute_type, a.dtype,
                                           a.default_value, a.field_type, a.reorder_id))
    /\ UNCHANGED <<assembly_vars, columns, call>>

\* injection_volume(val)
CallInjectionVolume ==
    /\ pc = "Call" /\ call.fn = "injection_volume" /\ Len(result) < MaxCalls
    /\ result' = Append(result, injection_volume(call.args[1]))
    /\ UNCHANGED <<assembly_vars, columns, call>>

\* element_to_bool(val)
CallElementToBool ==
    /\ pc = "Call" /\ call.fn = "element_to_bool" /\ Len(result) < MaxCalls
    /\ result' = Append(result, element_to_bool(str_text(call.args[1])))
    /\ UNCHANGED <<assembly_vars, columns, call>>

\* Attribute.from_xml(element)
CallAttributeFromXml ==
    /\ pc = "Call" /\ call.fn = "Attribute.from_xml" /\ Len(result) < MaxCalls
    /\ result' = Append(result, Attribute_from_xml(call.args[1]))
    /\ UNCHANGED <<assembly_vars, columns, call>>

\* parse_datetime(the_date)
CallParseDatetime ==
    /\ pc = "Call" /\ call.fn = "parse_datetime" /\ Len(result) < MaxCalls
    /\ \E t \in {StrOfChars(call.args[1])} : result' = Append(result, parse_datetime(t))
    /\ UNCHANGED <<assembly_vars, columns, call>>

\* JobData(id, job_type, run_status, sample_info=None)
CallJobData ==
    /\ pc = "Call" /\ call.fn = "JobData" /\ Len(result) < MaxCalls
    /\ LET a == call.args[1]
       IN  result' = Append(result,
                            JobData(a.id, a.job_type, a.run_status,
                                    IF a.sample_info = << >> THEN None ELSE a.sample_info[1]))
    /\ UNCHANGED <<assembly_vars, columns, call>>

\* Macro.from_xml(element).undefined
CallMacroUndefined ==
    /\ pc = "Call" /\ call.fn = "Macro.undefined" /\ Len(result) < MaxCalls
    /\ \E macro \in {Macro_from_xml(call.args[1])} :
          result' = Append(result, IF macro.ok THEN Ok(Bool(Macro_undefined(macro.val)))
                                   ELSE Raise(macro.err))
    /\ UNCHANGED <<assembly_vars, columns, call>>

NextCalls ==
    \/ CallCastValue
    \/ CallFromAttribute
    \/ CallColumn
    \/ CallInjectionVolume
    \/ CallElementToBool
    \/ CallAttributeFromXml
    \/ CallParseDatetime
    \/ CallJobData
    \/ CallMacroUndefined

SpecCalls == InitCalls /\ [][NextCalls]_vars

-----------------------------------------------------------------------------
(* worklist_parser/__init__.py and xml.py: a worklist read from a path *)

\* What the path given to read_worklist names: nothing, a directory, or a
\* file that is empty, is not XML, or holds a worklist document.
FileEntries ==
    {[kind |-> "missing", content |-> "", n_attributes |-> 0, n_jobs |-> 0],
     [kind |-> "directory", content |-> "", n_attributes |-> 0, n_jobs |-> 0],
     [kind |-> "file", content |-> "empty", n_attributes |-> 0, n_jobs |-> 0],
     [kind |-> "file", content |-> "not xml", n_attributes |-> 0, n_jobs |-> 0]}
    \cup [kind : {"file"}, content : {"xml"}, n_attributes : 0..MaxAttrs, n_jobs : 0..MaxJobs]

ReadWorklistCalls == {[fn |-> "read_worklist", args |-> <<entry>>] : entry \in FileEntries}

\* No tree has been parsed yet.
NoRoot == [n_attributes |-> 0, n_jobs |-> 0, LockedRunMode |-> << >>, Attributes |-> << >>]

InitRead ==
    /\ root = NoRoot
    /\ columns = ColumnsAtImport
    /\ pc = "read_worklist"
    /\ version = Unset /\ checksum = Unset /\ locked_run_mode = Unset
    /\ instrument_name = Unset /\ params = Unset
    /\ attributes_list = << >> /\ user_columns = EmptyDict
    /\ job = Unset /\ jobs_list = << >>
    /\ worklist = << >> /\ error = "" /\ table = << >>
    /\ call \in ReadWorklistCalls /\ result = << >>

\* The variables the steps before from_xml leave alone.
decode_vars == <<columns, header_vars, attr_vars, job_vars, worklist, table, call_vars>>

\* A variant of ReadWorklist that hands the path to the parser without
\* testing it: lxml raises OSError on a path it cannot read.
ReadWorklistUntested ==
    /\ pc = "read_worklist"
    /\ IF call.args[1].kind # "file"
       THEN pc' = "Failed" /\ error' = "OSError"
       ELSE pc' = "get_validated_tree" /\ UNCHANGED error
    /\ UNCHANGED <<root, decode_vars>>

\* read_worklist: os.path.isfile, then Worklist.from_xml_file.
ReadWorklist ==
    /\ pc = "read_worklist"
    /\ IF call.args[1].kind # "file"
       THEN pc' = "Failed" /\ error' = "FileNotFoundError"
       ELSE pc' = "get_validated_tree" /\ UNCHANGED error
    /\ UNCHANGED <<root, decode_vars>>

\* get_validated_tree up to the parser: xml_file.is_file(); Worklist has no
\* schema.
GetValidatedTree ==
    /\ pc = "get_validated_tree"
    /\ IF call.args[1].kind # "file"
       THEN pc' = "Failed" /\ error' = "FileNotFoundError"
       ELSE pc' = "objectify.parse" /\ UNCHANGED error
    /\ UNCHANGED <<root, decode_vars>>

\* objectify.parse and tree.getroot(): XMLSyntaxError on a file that is not
\* well-formed XML; the root goes to Worklist.from_xml.
ParseTree ==
    /\ pc = "objectify.parse"
    /\ IF call.args[1].content # "xml"
       THEN pc' = "Failed" /\ error' = "XMLSyntaxError" /\ UNCHANGED root
       ELSE /\ root' = [n_attributes |-> call.args[1].n_attributes,
                        n_jobs |-> call.args[1].n_jobs,
                        LockedRunMode |-> << >>, Attributes |-> << >>]
            /\ pc' = "Version"
            /\ UNCHANGED error
    /\ UNCHANGED decode_vars

NextRead ==
    \/ ReadWorklist
    \/ GetValidatedTree
    \/ ParseTree
    \/ Next

SpecRead == InitRead /\ [][NextRead]_vars

-----------------------------------------------------------------------------
(* Worklist.from_xml called again in the same process *)

\* The documents parsed after the first one.
LaterDocuments ==
    [n_attributes : {0, 1}, n_jobs : {0, 1}, LockedRunMode : {<< >>}, Attributes : {<< >>}]

\* The names of the user columns the calls before this one discovered,
\* whether they returned or failed.
DiscoveredBefore == IF result = << >> THEN {} ELSE result[1]

\* A variant of FromXmlAgain in which user_columns is one dict shared by
\* every call.
FromXmlAgainSharing ==
    /\ pc \in {"Done", "Failed", "Table", "TableFailed"}
    /\ root' \in LaterDocuments
    /\ pc' = "Version"
    /\ version' = Unset /\ checksum' = Unset /\ locked_run_mode' = Unset
    /\ instrument_name' = Unset /\ params' = Unset
    /\ attributes_list' = << >>
    /\ job' = Unset /\ jobs_list' = << >>
    /\ worklist' = << >> /\ error' = "" /\ table' = << >>
    /\ result' = << DiscoveredBefore \cup DictKeySet(user_columns) >>
    /\ UNCHANGED <<user_columns, columns, call>>

\* Worklist.from_xml is called once more, on another document: a new frame,
\* whose lists and user_columns (lines 199-202) are new objects.
FromXmlAgain ==
    /\ pc \in {"Done", "Failed", "Table", "TableFailed"}
    /\ root' \in LaterDocuments
    /\ pc' = "Version"
    /\ version' = Unset /\ checksum' = Unset /\ locked_run_mode' = Unset
    /\ instrument_name' = Unset /\ params' = Unset
    /\ attributes_list' = << >> /\ user_columns' = EmptyDict
    /\ job' = Unset /\ jobs_list' = << >>
    /\ worklist' = << >> /\ error' = "" /\ table' = << >>
    /\ result' = << DiscoveredBefore \cup DictKeySet(user_columns) >>
    /\ UNCHANGED <<columns, call>>

NextParses ==
    \/ Next
    \/ FromXmlAgain

SpecParses == Init /\ [][NextParses]_vars

-----------------------------------------------------------------------------
(* Worklist.from_xml and as_dataframe on a document given whole: `call`     *)
(* holds the document, and each step reads the part of it the code reads    *)
(* at that line.                                                            *)

MaxDocJobs == 1
MaxNamed == 3

\* One user column declared with each of three data types and with a
\* DefaultDataValue that is empty or text.
DefaultAttributes ==
    {AttributeElement("99", "2", Text("Nebulizer"), data_type, default) :
        data_type \in {"5", "8", "1"}, default \in {Text(""), Padded("n/a")}}

\* An Attributes child whose AttributeType is none of the three.
UnknownAttributeType == AttributeElement("99", "5", Text("Nebulizer"), "8", Text(""))

\* A JobData child with these SampleDataArray children.
JobElement(data) ==
    [ID |-> Text("fd6a7c1b-6e4e-4b8e-9f57-0c5e2a6f4d11"), JobType |-> Text("1"),
     RunStatus |-> Text("2"),
     SampleInfo |-> SampleInfoElement(Text(""), Text("0"), Padded("a"),
                        [GoodTags EXCEPT !["Identifier"] = Text("S-1")], data)]

\* A JobData child whose ID is not a UUID.
MalformedJobElement == [JobElement(<< >>) EXCEPT !.ID = Text("not-a-uuid")]

\* Documents in which any of LockedRunMode, Params, the Attributes children
\* and the JobData children may be malformed.
OrderDocuments ==
    [LockedRunMode : {0, 5},
     Params : {GoodParams, [GoodParams EXCEPT !["RunType"] = Text("x")]},
     Attributes : SeqsUpTo({AttributeElement("30", "2", Padded("Drying Gas"), "8", Text("")),
                            UnknownAttributeType}, MaxAttrs),
     JobData : SeqsUpTo({JobElement(<< >>), MalformedJobElement}, MaxJobs)]

\* The Attributes children of the documents below: user columns that share
\* an AttributeID, that are named like a static or a derived key, a
\* SystemDefined attribute that declares a static column anew.
ColumnAttributes ==
    {AttributeElement("30", "2", Padded("Drying Gas"), "8", Text("")),
     AttributeElement("30", "0", Text("Sample ID"), "1", Text("n/a")),
     AttributeElement("30", "1", Padded("Sample ID"), "8", Text("")),
     AttributeElement("30", "1", Text("Label"), "8", Text(""))}

ColumnJobs ==
    {JobElement(data) :
        data \in {<< >>,
                  << DataChild(Text("30"), Padded("200")) >>,
                  << DataChild(Text("31"), Text("5")), DataChild(Text("31"), Text("12")) >>,
                  << DataChild(Text("30"), Padded("200")), DataChild(Text("31"), Text("12")) >>}}

\* Documents whose header is well formed.
ColumnDocuments ==
    [LockedRunMode : {0},
     Params : {GoodParams},
     Attributes : SeqsUpTo(ColumnAttributes, MaxAttrs),
     JobData : SeqsUpTo(ColumnJobs, MaxDocJobs)]

\* Documents with up to MaxNamed attributes out of three user columns, two of
\* one name and two of one AttributeID.
NamedDocuments ==
    [LockedRunMode : {0},
     Params : {GoodParams},
     Attributes : SeqsUpTo({AttributeElement("30", "2", Padded("Drying Gas"), "8", Text("")),
                            AttributeElement("31", "2", Text("Drying Gas"), "1", Text("5")),
                            AttributeElement("31", "1", Text("Gas Temp"), "5", Padded("200"))},
                           MaxNamed),
     JobData : SeqsUpTo(ColumnJobs, MaxDocJobs)]

\* Documents whose attributes declare "Nebulizer" and whose jobs carry no
\* child with its id, or one with an empty DataValue.
DefaultDocuments ==
    [LockedRunMode : {0},
     Params : {GoodParams},
     Attributes : SeqsUpTo(DefaultAttributes, MaxAttrs),
     JobData : SeqsUpTo({JobElement(<< >>),
                         JobElement(<< DataChild(Text("99"), Text("")) >>)}, MaxDocJobs)]

Documents == OrderDocuments \cup ColumnDocuments \cup NamedDocuments \cup DefaultDocuments

\* The document from_xml was called on.
document == call.args[1]

InitDocument ==
    /\ call \in [fn : {"Worklist.from_xml"}, args : {<< d >> : d \in Documents}]
    /\ root = [n_attributes |-> Len(document.Attributes), n_jobs |-> Len(document.JobData),
               LockedRunMode |-> << >>, Attributes |-> << >>]
    /\ columns = ColumnsAtImport
    /\ pc = "Version"
    /\ version = Unset /\ checksum = Unset /\ locked_run_mode = Unset
    /\ instrument_name = Unset /\ params = Unset
    /\ attributes_list = << >> /\ user_columns = EmptyDict
    /\ job = Unset /\ jobs_list = << >>
    /\ worklist = << >> /\ error = "" /\ table = << >>
    /\ result = << >>

\* lines 189-194, on the LockedRunMode of the document
ReadLockedRunModeGiven ==
    /\ pc = "LockedRunMode"
    /\ ReadLockedRunModeOf(document.LockedRunMode)

\* lines 197-202, on the Params of the document
ReadParamsGiven ==
    /\ pc = "Params"
    /\ ReadParamsOf(document.Params)

\* lines 204-210, on the next Attributes child of the document
DecodeAttributeGiven ==
    /\ pc = "Attributes"
    /\ DecodeAttributeOf(document.Attributes[Len(root.Attributes) + 1])

\* lines 212-213, on the next JobData child of the document
DecodeJobGiven ==
    /\ pc = "JobData"
    /\ DecodeJobOf(document.JobData[Len(jobs_list) + 1])

NextDocument ==
    \/ ReadVersion
    \/ ReadChecksum
    \/ ReadLockedRunModeGiven
    \/ ReadInstrument
    \/ ReadParamsGiven
    \/ DecodeAttributeGiven
    \/ DecodeJobGiven
    \/ Return
    \/ AsDataframe

SpecDocument == InitDocument /\ [][NextDocument]_vars

-----------------------------------------------------------------------------
(* Properties *)

Last(q) == q[Len(q)]

\* The header names of the document's attributes that are not SystemDefined,
\* read off the XML text.
NotSystemDefined(element) == strip(element.AttributeType) # "0"
UserHeaderNames ==
    {strip(root.Attributes[i].HeaderName) :
        i \in {j \in 1..Len(root.Attributes) : NotSystemDefined(root.Attributes[j])}}

DerivedKeys == {"Acquired Time", "Sample Locked Run Mode", "Run Completed", "Label"}
StaticNames == {StaticColumns[i].name : i \in 1..Len(StaticColumns)}

\* C1: once from_xml has returned, the keys of user_columns are exactly the
\* trimmed header names of the attributes that are not SystemDefined, and
\* user_columns is empty when there is no such attribute.
C1_UserColumnKeys ==
    worklist # << >> =>
        /\ Len(root.Attributes) = root.n_attributes
        /\ DictKeySet(worklist[1].user_columns) = UserHeaderNames
        /\ \A name \in UserHeaderNames : worklist[1].user_columns.at[name].name = name
        /\ (\A i \in 1..Len(root.Attributes) : ~NotSystemDefined(root.Attributes[i]))
              => worklist[1].user_columns = EmptyDict

\* C1 witness: a returned worklist whose document mixes a SystemDefined
\* attribute with one that is not and whose header name had whitespace around it.
C1_Witness ==
    /\ worklist # << >>
    /\ \E i, j \in 1..Len(root.Attributes) :
         /\ ~NotSystemDefined(root.Attributes[i])
         /\ NotSystemDefined(root.Attributes[j])
         /\ root.Attributes[j].HeaderName.lead > 0
    /\ DictKeySet(worklist[1].user_columns) = {"Drying Gas"}

-----------------------------------------------------------------------------

\* The integer an element's AttributeID text denotes.
IsIntText(t) == strip(t) \in IntLiterals
AttributeIdOf(element) == IntOf(strip(element.AttributeID))

\* Attribute i of the document is not SystemDefined.
Declares(i) == NotSystemDefined(root.Attributes[i])

\* A later attribute that is not SystemDefined declares the header name of
\* attribute i again.
RedeclaredLater(i) ==
    \E j \in (i + 1)..Len(root.Attributes) :
        /\ Declares(j)
        /\ strip(root.Attributes[j].HeaderName) = strip(root.Attributes[i].HeaderName)

\* Every Attributes child has been decoded and user_columns is complete.
AttributesComplete ==
    /\ Len(root.Attributes) = root.n_attributes
    /\ Len(attributes_list) = root.n_attributes
    /\ DictKeySet(user_columns) = UserHeaderNames

\* The SampleDataArray children of the job decoded last.
DataOf(element) == element.SampleInfo.SampleDataArray
Carries(element, attribute_id) ==
    \E c \in 1..Len(DataOf(element)) :
        /\ IsIntText(DataOf(element)[c].AttributeID)
        /\ AttributeIdOf(DataOf(element)[c]) = attribute_id

\* The id declared by attribute i resolves: user_columns holds a column with
\* that id under the attribute's header name, and the job decoded last has a
\* value under that name when it carries the id.
Resolves(i) ==
    LET name == strip(root.Attributes[i].HeaderName)
        id == AttributeIdOf(root.Attributes[i])
    IN  /\ DictHas(user_columns, name)
        /\ user_columns.at[name].attribute_id = id
        /\ (pc # "Failed" /\ Carries(job, id)) => name \in DOMAIN Last(jobs_list).sample_info

\* C2 as stated: once a job has been decoded the attributes are complete, and the
\* id declared by any attribute that is not SystemDefined resolves, whatever the
\* attribute's position.
C2_AnyPosition ==
    job # Unset =>
        /\ AttributesComplete
        /\ \A i \in 1..Len(root.Attributes) : Declares(i) => Resolves(i)

\* C2: every Attributes child is decoded and user_columns is complete before
\* the first JobData child is decoded, user_columns stays the same while the
\* jobs are decoded, and the id declared by an attribute that is not
\* SystemDefined resolves, whatever the attribute's position, unless a later
\* such attribute declares the same header name again.
C2_State ==
    job # Unset =>
        /\ AttributesComplete
        /\ \A i \in 1..Len(root.Attributes) :
               (Declares(i) /\ ~RedeclaredLater(i)) => Resolves(i)
C2_Step ==
    pc \in {"JobData", "Return", "Done"} =>
        /\ user_columns' = user_columns
        /\ attributes_list' = attributes_list
        /\ root'.Attributes = root.Attributes
C2_AttributesBeforeJobs == [](C2_State) /\ [][C2_Step]_vars

\* C2 witness: a job carrying the id of the first of two attributes has been
\* decoded, and its record holds a value under that attribute's header name.
C2_Witness ==
    /\ job # Unset /\ pc # "Failed"
    /\ Len(root.Attributes) = 2
    /\ Declares(1) /\ Declares(2) /\ ~RedeclaredLater(1)
    /\ Carries(job, AttributeIdOf(root.Attributes[1]))
    /\ strip(root.Attributes[1].HeaderName) \in DOMAIN Last(jobs_list).sample_info

-----------------------------------------------------------------------------

\* The AttributeID of every SampleDataArray child of the element is an integer.
IntChildren(element) ==
    \A c \in 1..Len(DataOf(element)) : IsIntText(DataOf(element)[c].AttributeID)

\* The child's AttributeID is the attribute_id of a column of user_columns.
IsMatched(child) ==
    \E name \in DictKeySet(user_columns) :
        user_columns.at[name].attribute_id = AttributeIdOf(child)

\* The last SampleDataArray child of the element that carries the id.
LastCarrying(element, attribute_id) ==
    CHOOSE c \in 1..Len(DataOf(element)) :
        /\ AttributeIdOf(DataOf(element)[c]) = attribute_id
        /\ \A d \in (c + 1)..Len(DataOf(element)) :
               AttributeIdOf(DataOf(element)[d]) # attribute_id

C5_NoAttributesOneJob ==
    (root.n_attributes = 0 /\ root.n_jobs = 1 /\ worklist # << >>) =>
        /\ worklist[1].user_columns = EmptyDict
        /\ Len(worklist[1].jobs) = 1
        /\ DOMAIN worklist[1].jobs[1].sample_info = DerivedKeys \cup StaticNames
        /\ Cardinality(DOMAIN worklist[1].jobs[1].sample_info) = 32
        /\ Len(sample_info_tags) = 28
        /\ \A i \in 1..Len(sample_info_tags) : DictHas(columns, sample_info_tags[i][2])
        /\ \A i, j \in 1..Len(sample_info_tags) :
              sample_info_tags[i][2] = sample_info_tags[j][2] => i = j

\* C5 witness: such a worklist has been returned; its job carried a
\* SampleDataArray child, which left no key.
C5_Witness ==
    /\ root.n_attributes = 0 /\ root.n_jobs = 1 /\ worklist # << >>
    /\ Len(DataOf(job)) > 0
    /\ Cardinality(DOMAIN worklist[1].jobs[1].sample_info) = 32

-----------------------------------------------------------------------------

\* The names of the static table in the order of their declaration.
StaticNamesInOrder == [i \in 1..Len(StaticColumns) |-> StaticColumns[i].name]

\* The header names of the first n attributes that are not SystemDefined, each
\* at the place of its first occurrence.
RECURSIVE DiscoveryOrder(_)
DiscoveryOrder(n) ==
    IF n = 0 THEN << >>
    ELSE LET prev == DiscoveryOrder(n - 1)
             name == strip(root.Attributes[n].HeaderName)
         IN  IF Declares(n) /\ \A i \in 1..Len(prev) : prev[i] # name
             THEN Append(prev, name)
             ELSE prev

\* C6: the headers of the table are the static names in the order of the
\* static table, followed by the user column names in discovery order; with
\* no user column they are exactly the 28 static names in declared order.
C6_Headers ==
    pc = "Table" =>
        /\ table[1].columns = StaticNamesInOrder \o DiscoveryOrder(Len(root.Attributes))
        /\ Len(StaticNamesInOrder) = 28
        /\ worklist[1].user_columns = EmptyDict => table[1].columns = StaticNamesInOrder

\* C6 witness: a table with two user columns, the first discovered having the
\* greater reorder_id.
C6_Witness ==
    /\ pc = "Table"
    /\ Len(table[1].columns) = 30
    /\ worklist[1].user_columns.at[table[1].columns[29]].reorder_id
          > worklist[1].user_columns.at[table[1].columns[30]].reorder_id

\* Some job of the returned worklist has no value for some header.
MissingCell ==
    \E j \in 1..Len(worklist[1].jobs) :
        \E header \in StaticNames \cup DictKeySet(worklist[1].user_columns) :
            header \notin DOMAIN worklist[1].jobs[j].sample_info

\* C7: as_dataframe raises KeyError and returns no table whenever some job has
\* no value for one of the headers; a table it returns has no cell that is
\* not the job's own value for the header.
C7_LookupFailure ==
    pc \in {"Table", "TableFailed"} =>
        /\ MissingCell => (pc = "TableFailed" /\ error = "KeyError" /\ table = << >>)
        /\ pc = "TableFailed" => MissingCell
        /\ pc = "Table" =>
              \A j \in 1..Len(table[1].data) : \A h \in 1..Len(table[1].columns) :
                  /\ table[1].columns[h] \in DOMAIN worklist[1].jobs[j].sample_info
                  /\ table[1].data[j][h] # None
                        \/ worklist[1].jobs[j].sample_info[table[1].columns[h]] = None

\* C7 witness: as_dataframe failed on a worklist one of whose jobs carries the
\* declared user column and another does not.
C7_Witness ==
    /\ pc = "TableFailed" /\ error = "KeyError"
    /\ \E name \in DictKeySet(worklist[1].user_columns) :
         \E i, j \in 1..Len(worklist[1].jobs) :
            /\ name \in DOMAIN worklist[1].jobs[i].sample_info
            /\ name \notin DOMAIN worklist[1].jobs[j].sample_info

\* C8: the jobs of the returned Worklist are one per JobData child in document
\* order (each decoded job is appended behind those decoded before it), and
\* the table has one row per job in that order, each cell being the job's
\* sample_info[header].
C8_State ==
    /\ worklist # << >> =>
          /\ worklist[1].jobs = jobs_list
          /\ Len(jobs_list) = root.n_jobs
    /\ pc = "Table" =>
          /\ Len(table[1].data) = Len(worklist[1].jobs)
          /\ \A j \in 1..Len(table[1].data) :
                /\ Len(table[1].data[j]) = Len(table[1].columns)
                /\ \A h \in 1..Len(table[1].columns) :
                      table[1].data[j][h] = worklist[1].jobs[j].sample_info[table[1].columns[h]]
C8_Step ==
    /\ jobs_list' # jobs_list => pc = "JobData"
    /\ pc = "JobData" =>
          \/ pc' = "Failed" /\ jobs_list' = jobs_list
          \/ /\ pc' # "Failed"
             /\ Len(jobs_list') = Len(jobs_list) + 1
             /\ SubSeq(jobs_list', 1, Len(jobs_list)) = jobs_list
             /\ Last(jobs_list').sample_info["Label"] = Str(strip(job'.SampleInfo.Label))
             /\ Last(jobs_list').id.s = strip(job'.ID)
C8_JobsInOrder == [](C8_State) /\ [][C8_Step]_vars

\* C8 witness: a table of two rows from two jobs that differ.
C8_Witness ==
    /\ pc = "Table"
    /\ Len(table[1].data) = 2
    /\ table[1].data[1] # table[1].data[2]
    /\ worklist[1].jobs[1].sample_info["Label"] = Str("a")
    /\ worklist[1].jobs[2].sample_info["Label"] = Str("b")

\* C9: a Worklist is returned only with every Attributes child and every
\* JobData child decoded; when a step of from_xml fails no Worklist is
\* returned, then or later.
C9_AllOrNothing ==
    /\ worklist # << >> =>
          /\ pc # "Failed"
          /\ Len(root.Attributes) = root.n_attributes
          /\ Len(attributes_list) = root.n_attributes
          /\ Len(worklist[1].jobs) = root.n_jobs
    /\ pc = "Failed" =>
          /\ worklist = << >>
          /\ table = << >>
          /\ error # ""
          /\ ~ENABLED Next

\* C9 witness: from_xml failed on a job after an attribute and a job had been
\* decoded.
C9_Witness ==
    /\ pc = "Failed"
    /\ Len(attributes_list) >= 1
    /\ Len(jobs_list) >= 1
    /\ worklist = << >>

\* C10: a LockedRunMode of -1 gives locked_run_mode True, 0 gives False, and
\* any other integer makes from_xml fail with a ValueError naming
\* 'LockedRunMode'.
C10_LockedRunMode ==
    root.LockedRunMode # << >> =>
        LET value == root.LockedRunMode[1]
            unknown == "ValueError: Unknown value for 'LockedRunMode'"
        IN  IF value \in {-1, 0}
            THEN /\ locked_run_mode = Bool(value = -1)
                 /\ error # unknown
                 /\ worklist # << >> => worklist[1].locked_run_mode = (value = -1)
            ELSE /\ pc = "Failed"
                 /\ error = unknown
                 /\ locked_run_mode = Unset
                 /\ worklist = << >>

\* C10 witness: from_xml failed on a LockedRunMode of 1.
C10_Witness ==
    /\ root.LockedRunMode = << 1 >>
    /\ pc = "Failed"
    /\ error = "ValueError: Unknown value for 'LockedRunMode'"

-----------------------------------------------------------------------------
(* Properties of the functions called on their own *)

\* The call being made and the outcomes it has had.
Called(fn) == call.fn = fn /\ result # << >>

\* C11: column.cast_value(value) returns the column's default for the empty
\* string, and for every other value (whitespace-only strings, None, False and
\* 0 included) the value itself when dtype is Any and dtype(value) otherwise:
\* str gives "None", "False", "0" for None, False, 0, and a failing dtype
\* propagates its exception.
C11_CastValue ==
    Called("cast_value") =>
        LET c == call.args[1]
            v == call.args[2]
        IN  \A i \in 1..Len(result) :
              LET r == result[i]
              IN  /\ v = Str("") => r = Ok(c.default_value)
                  /\ (v # Str("") /\ c.dtype = "Any") => r = Ok(v)
                  /\ (v # Str("") /\ c.dtype # "Any") => r = ApplyDtype(c.dtype, v)
                  /\ c.dtype = "str" =>
                        /\ v = None => r = Ok(Str("None"))
                        /\ v = Bool(FALSE) => r = Ok(Str("False"))
                        /\ v = Int_(0) => r = Ok(Str("0"))
                        /\ v = Whitespace(2) => r = Ok(Whitespace(2))
                  /\ c.dtype = "float" =>
                        /\ v = PaddedStr("12") => r = Ok(Float(120))
                        /\ v = Str("abc") => r = Raise("ValueError")
                        /\ v = None => r = Raise("TypeError")

\* cast_value was called with None on a column of dtype str whose default is
\* not "None", and with the empty string.
C11_Witness ==
    /\ Called("cast_value")
    /\ call.args[1].dtype = "str" /\ call.args[1].default_value = Str("The Default")
    /\ call.args[2] = None
    /\ result = <<Ok(Str("None")), Ok(Str("None"))>>

\* C12: Column.from_attribute(a) gives a Column of dtype str when a.data_type
\* is 8, float when it is 5 and Any otherwise, with name, attribute_id,
\* attribute_type, field_type and reorder_id copied from a (name from
\* header_name) and default_value the trimmed default_data_value cast through
\* that dtype (left as text under Any); no Column when that cast fails.
C12_FromAttribute ==
    Called("from_attribute") =>
        LET a == call.args[1]
            dtype == CASE a.data_type = 8 -> "str" [] a.data_type = 5 -> "float" [] OTHER -> "Any"
            text == a.default_data_value
            default_value ==
                CASE dtype = "float" /\ text = "1.5" -> Ok(Float(15))
                  [] dtype = "float" /\ text = "12" -> Ok(Float(120))
                  [] dtype = "float" -> Raise("ValueError")
                  [] OTHER -> Ok(Str(text))
        IN  \A i \in 1..Len(result) :
              IF default_value.ok
              THEN result[i] = Ok([name |-> a.header_name,
                                   attribute_id |-> a.attribute_id,
                                   attribute_type |-> a.attribute_type,
                                   dtype |-> dtype,
                                   default_value |-> default_value.val,
                                   field_type |-> a.field_type,
                                   reorder_id |-> a.reorder_id])
              ELSE result[i] = Raise("ValueError")

\* from_attribute was called on a descriptor of data_type 1 whose field_type
\* and reorder_id differ from its attribute_id, and gave a Column of dtype Any.
C12_Witness ==
    /\ Called("from_attribute")
    /\ call.args[1].data_type = 1 /\ call.args[1].default_data_value = "12"
    /\ call.args[1].attribute_id = 50 /\ call.args[1].field_type = 8
    /\ call.args[1].reorder_id = -1
    /\ result[1].ok /\ result[1].val.dtype = "Any"
    /\ result[1].val.default_value = Str("12") /\ result[1].val.reorder_id = -1

\* C13 (states): every call of from_attribute on the same descriptor has given
\* the same outcome, field by field, and the static column table is as at
\* import.
C13_State ==
    Called("from_attribute") =>
        /\ \A i, j \in 1..Len(result) : result[i] = result[j]
        /\ columns = ColumnsAtImport

\* C13 (steps): a call of from_attribute changes neither the descriptor it is
\* given nor the static column table.
C13_Step ==
    call.fn = "from_attribute" => (call' = call /\ columns' = columns)

Uncastable(dtype, v) ==
    \/ dtype \in {"float", "int", "injection_volume"} /\ v = None
    \/ dtype \in {"float", "int", "injection_volume"} /\ v.k = "str"
         /\ v.s \in {"", "abc"}
    \/ dtype \in {"int", "injection_volume"} /\ v.k = "str" /\ v.s = "1.5"

\* C14: constructing a Column whose default cannot be cast through its dtype
\* (not Any) raises the dtype's ValueError or TypeError and gives no Column;
\* a Column that was constructed never fails on its default at cast_value.
C14_FailFast ==
    Called("Column") =>
        LET a == call.args[1]
        IN  \A i \in 1..Len(result) :
              LET r == result[i]
              IN  /\ (a.dtype # "Any" /\ Uncastable(a.dtype, a.default_value)) =>
                        (~r.ok /\ r.val = None /\ r.err \in {"ValueError", "TypeError"})
                  /\ ~(a.dtype # "Any" /\ Uncastable(a.dtype, a.default_value)) => r.ok
                  /\ r.ok => cast_value(r.val, Str("")) = Ok(r.val.default_value)

\* Column was called with dtype float and the default "abc" and raised.
C14_Witness ==
    /\ Called("Column")
    /\ call.args[1].dtype = "float" /\ call.args[1].default_value = Str("abc")
    /\ result[1] = Raise("ValueError")

\* v is a value the dtype returns: a str for str, a float for float, an int
\* for int, a path or None for as_path, an int or "As Method" for
\* injection_volume.
CastThrough(dtype, v) ==
    CASE dtype = "str" -> v.k = "str"
      [] dtype = "float" -> v.k = "float"
      [] dtype = "int" -> v.k = "int"
      [] dtype = "as_path" -> v.k \in {"path", "none"}
      [] dtype = "injection_volume" -> v.k = "int" \/ v = Str("As Method")
      [] OTHER -> TRUE

\* C15: a constructed Column whose dtype is not Any holds dtype applied to the
\* default supplied (-1 under str is "-1", "12  " under float is 12.0); under
\* Any it holds the supplied default unchanged. So do the 28 static columns
\* and the columns from_attribute derives.
C15_DefaultCast ==
    /\ Called("Column") =>
          LET a == call.args[1]
          IN  \A i \in 1..Len(result) :
                result[i].ok =>
                  LET stored == result[i].val.default_value
                  IN  /\ a.dtype = "Any" => stored = a.default_value
                      /\ a.dtype # "Any" =>
                            /\ Ok(stored) = ApplyDtype(a.dtype, a.default_value)
                            /\ CastThrough(a.dtype, stored)
                      /\ (a.dtype = "str" /\ a.default_value = Int_(-1)) => stored = Str("-1")
                      /\ (a.dtype = "float" /\ a.default_value = PaddedStr("12")) =>
                            stored = Float(120)
                      /\ (a.dtype = "int" /\ a.default_value = Float(15)) => stored = Int_(1)
    /\ Called("from_attribute") =>
          \A i \in 1..Len(result) :
            result[i].ok =>
              LET c == result[i].val
              IN  /\ CastThrough(c.dtype, c.default_value)
                  /\ c.dtype = "Any" => c.default_value = Str(call.args[1].default_data_value)
    /\ Len(DictKeys(columns)) = 28
    /\ \A name \in DictKeySet(columns) :
          LET c == DictGet(columns, name)
          IN  c.dtype # "Any" /\ CastThrough(c.dtype, c.default_value)

\* Column was called with dtype str and the default -1 and holds "-1".
C15_Witness ==
    /\ Called("Column")
    /\ call.args[1].dtype = "str" /\ call.args[1].default_value = Int_(-1)
    /\ result[1].ok /\ result[1].val.default_value = Str("-1")

\* C16: a field_type or a reorder_id left unset at the construction of a
\* Column becomes the column's attribute_id, each on its own; a value that
\* was supplied (0 and -1 included) is kept; no constructed Column, static or
\* derived, has an unset field_type or reorder_id.
C16_FieldTypeDefault ==
    /\ Called("Column") =>
          LET a == call.args[1]
          IN  \A i \in 1..Len(result) :
                result[i].ok =>
                  LET c == result[i].val
                  IN  /\ a.field_type = << >> => c.field_type = a.attribute_id
                      /\ a.field_type # << >> => c.field_type = a.field_type[1]
                      /\ a.reorder_id = << >> => c.reorder_id = a.attribute_id
                      /\ a.reorder_id # << >> => c.reorder_id = a.reorder_id[1]
                      /\ c.field_type \in Int /\ c.reorder_id \in Int
    /\ Called("from_attribute") =>
          \A i \in 1..Len(result) :
            result[i].ok =>
              /\ result[i].val.field_type = call.args[1].field_type
              /\ result[i].val.reorder_id = call.args[1].reorder_id
    /\ \A name \in DictKeySet(columns) :
          /\ DictGet(columns, name).field_type \in Int
          /\ DictGet(columns, name).reorder_id \in Int

\* Column was called with attribute_id 1, field_type 0 and no reorder_id, and
\* holds field_type 0 and reorder_id 1.
C16_Witness ==
    /\ Called("Column")
    /\ call.args[1].attribute_id = 1 /\ call.args[1].field_type = <<0>>
    /\ call.args[1].reorder_id = << >>
    /\ result[1].ok /\ result[1].val.field_type = 0 /\ result[1].val.reorder_id = 1

\* C17: injection_volume(-1) and injection_volume("-1") return "As Method";
\* for every integer n >= 0, injection_volume(n) and injection_volume of the
\* string form of n return the int n. Exactly one static column, "Inj Vol
\* (µl)", has injection_volume as its dtype.
C17_InjectionVolume ==
    /\ Called("injection_volume") =>
          LET v == call.args[1]
          IN  \A i \in 1..Len(result) :
                /\ v \in {Int_(-1), Str("-1")} => result[i] = Ok(Str("As Method"))
                /\ (v.k = "int" /\ v.n >= 0) => result[i] = Ok(Int_(v.n))
                /\ v = Str("0") => result[i] = Ok(Int_(0))
                /\ v = Str("1") => result[i] = Ok(Int_(1))
                /\ v = Str("12") => result[i] = Ok(Int_(12))
                /\ v = Str("99") => result[i] = Ok(Int_(99))
                /\ v = Str("200") => result[i] = Ok(Int_(200))
                /\ (v.k = "str" /\ v.s # "-1") =>
                      (result[i].ok /\ result[i].val.k = "int" /\ result[i].val.n >= 0
                       /\ IntRepr(result[i].val.n) = v.s)
    /\ {name \in DictKeySet(columns) : DictGet(columns, name).dtype = "injection_volume"}
         = {"Inj Vol (µl)"}

\* injection_volume was called on the string "-1" and returned "As Method".
C17_Witness ==
    /\ Called("injection_volume")
    /\ call.args[1] = Str("-1")
    /\ result[1] = Ok(Str("As Method"))

\* The input of a call of element_to_bool, as the text the claim speaks of:
\* trimmed, a value that is not a str in its printed form.
TrimmedInput ==
    LET v == call.args[1]
    IN  CASE v.k = "str" -> v.s
          [] v = Int_(-1) -> "-1" [] v = Int_(0) -> "0" [] v = Int_(1) -> "1"
          [] v = Int_(50) -> "50" [] v = Float(10) -> "1.0" [] v = Float(0) -> "0.0"
          [] v = Bool(TRUE) -> "True" [] v = Bool(FALSE) -> "False"
          [] OTHER -> "None"

\* y, yes, true, on and n, no, false, off in the letter cases of the model.
YesForms ==
    {"y", "Y", "yes", "YES", "Yes", "yEs", "true", "TRUE", "True", "tRUe",
     "on", "ON", "On", "oN", "1"}
NoForms ==
    {"n", "N", "no", "NO", "No", "nO", "false", "FALSE", "False", "falSE",
     "off", "OFF", "Off", "oFF", "0"}

\* element_to_bool gives True on the forms of `true_forms`, False on those of
\* `false_forms` and raises ValueError, returning nothing, on any other input.
BoolVocabulary(true_forms, false_forms) ==
    Called("element_to_bool") =>
        \A i \in 1..Len(result) :
          IF TrimmedInput \in true_forms THEN result[i] = Ok(Bool(TRUE))
          ELSE IF TrimmedInput \in false_forms THEN result[i] = Ok(Bool(FALSE))
          ELSE result[i] = Raise("ValueError") /\ result[i].val = None

\* C18 as stated: after trimming, "-1" (or -1) and y/yes/true/on/1 in any
\* letter case give True, n/no/false/off/0 in any letter case give False, and
\* any other input raises ValueError.
C18_Vocabulary == BoolVocabulary(YesForms \cup {"-1"}, NoForms)

\* C18 amended: the vocabulary also holds t (True) and f (False), in any
\* letter case; with them, every other input raises ValueError.
C18_VocabularyWithTF ==
    BoolVocabulary(YesForms \cup {"-1", "t", "T"}, NoForms \cup {"f", "F"})

\* element_to_bool was called on "YES" with whitespace around it and gave
\* True.
C18_Witness ==
    /\ Called("element_to_bool")
    /\ call.args[1] = PaddedStr("YES")
    /\ result[1] = Ok(Bool(TRUE))

\* C19: decoding an attribute whose AttributeType integer is not 0, 1 or 2
\* fails with the ValueError of the enum lookup and gives no Attribute; for
\* 0, 1 and 2 the Attribute decoded holds SystemDefined, SystemUsed and
\* UserAdded.
C19_InvalidEnumValue ==
    Called("Attribute.from_xml") =>
        LET element == call.args[1]
            type == element.AttributeType.body
        IN  \A i \in 1..Len(result) :
              LET r == result[i]
              IN  /\ type \notin {"0", "1", "2"} =>
                        (r = Raise("ValueError: not a valid AttributeType") /\ r.val = None)
                  /\ (type \in {"0", "1", "2"} /\ element.ShowHideStatus # Text("maybe")) => r.ok
                  /\ (type = "0" /\ r.ok) => r.val.attribute_type = SystemDefined
                  /\ (type = "1" /\ r.ok) => r.val.attribute_type = SystemUsed
                  /\ (type = "2" /\ r.ok) => r.val.attribute_type = UserAdded

\* Attribute.from_xml was called on an element whose AttributeType is 5 and
\* raised the ValueError of the enum lookup.
C19_Witness ==
    /\ Called("Attribute.from_xml")
    /\ call.args[1].AttributeType = Text("5")
    /\ result[1] = Raise("ValueError: not a valid AttributeType")

\* C20: parse_datetime of the empty string returns the epoch
\* 1970-01-01T00:00:00+00:00, and so does parse_datetime of any string made
\* of spaces, tabs, newlines and carriage returns only.
C20_WhitespaceIsEpoch ==
    Called("parse_datetime") =>
        LET chars == call.args[1]
        IN  (\A n \in 1..Len(chars) : chars[n] \in {" ", "\t", "\n", "\r"}) =>
              \A i \in 1..Len(result) :
                result[i] = Ok(Datetime("1970-01-01T00:00:00+0000"))

\* parse_datetime was called on a tab, a newline and a carriage return and
\* returned the epoch.
C20_Witness ==
    /\ Called("parse_datetime")
    /\ call.args[1] = <<"\t", "\n", "\r">>
    /\ result[1] = Ok(Epoch)

\* The identifier an id argument stands for, whatever its form.
Identifier(id) ==
    CASE id.k = "uuid" -> id.s
      [] id.s \in {"fd6a7c1b-6e4e-4b8e-9f57-0c5e2a6f4d11",
                   "{FD6A7C1B-6E4E-4B8E-9F57-0C5E2A6F4D11}",
                   "fd6a7c1b6e4e4b8e9f570c5e2a6f4d11"} -> "fd6a7c1b-6e4e-4b8e-9f57-0c5e2a6f4d11"
      [] id.s \in {"{B1F6E4D5-A300-40DF-8FB0-2A26FD8B8C0C}",
                   "urn:uuid:b1f6e4d5-a300-40df-8fb0-2a26fd8b8c0c"} ->
             "b1f6e4d5-a300-40df-8fb0-2a26fd8b8c0c"
      [] OTHER -> ""

\* C21: a JobData built from an id given as a string or as a UUID holds the
\* UUID of that identifier (the same for every form of one identifier), holds
\* job_type and run_status as ints also when they were numeric strings, and
\* holds the empty mapping as sample_info when none, or an empty one, is given.
C21_JobData ==
    Called("JobData") =>
        LET a == call.args[1]
        IN  \A i \in 1..Len(result) :
              LET r == result[i]
              IN  /\ r.ok <=> (Identifier(a.id) # "" /\ a.job_type # Str("abc"))
                  /\ r.ok =>
                        /\ r.val.id = [k |-> "uuid", s |-> Identifier(a.id), n |-> 0]
                        /\ a.job_type \in {Int_(8), Str("8")} => r.val.job_type = 8
                        /\ a.job_type = Int_(0) => r.val.job_type = 0
                        /\ r.val.run_status = 1
                        /\ a.sample_info \in {<< >>, <<[x \in {} |-> None]>>} =>
                              DOMAIN r.val.sample_info = {}
                        /\ a.sample_info = <<("foo" :> Str("a string"))>> =>
                              r.val.sample_info = ("foo" :> Str("a string"))

\* JobData was called with the id in braces and capitals, job_type and
\* run_status as strings and no sample_info.
C21_Witness ==
    /\ Called("JobData")
    /\ call.args[1].id = Str("{B1F6E4D5-A300-40DF-8FB0-2A26FD8B8C0C}")
    /\ call.args[1].job_type = Str("8") /\ call.args[1].run_status = Str("1")
    /\ call.args[1].sample_info = << >>
    /\ result[1].ok
    /\ result[1].val.id = UUIDObject("b1f6e4d5-a300-40df-8fb0-2a26fd8b8c0c")
    /\ result[1].val.job_type = 8 /\ DOMAIN result[1].val.sample_info = {}

\* C24: a Macro is undefined if and only if its five text fields are empty
\* after trimming and its output_data_type is 0; one text field that is not
\* empty, or an output_data_type that is not 0, makes it not undefined.
C24_MacroUndefined ==
    Called("Macro.undefined") =>
        LET element == call.args[1]
            empty == /\ element.ProjectName.body = ""
                     /\ element.ProcedureName.body = ""
                     /\ element.InputParameter.body = ""
                     /\ element.OutputParameter.body = ""
                     /\ element.DisplayString.body = ""
            zero == element.OutputDataType.body = "0"
        IN  \A i \in 1..Len(result) : result[i] = Ok(Bool(empty /\ zero))

\* The Macro of an element whose children hold whitespace only and whose
\* OutputDataType is 1 is not undefined.
C24_Witness ==
    /\ Called("Macro.undefined")
    /\ call.args[1].ProjectName = Padded("") /\ call.args[1].DisplayString = Padded("")
    /\ call.args[1].ProcedureName = Text("") /\ call.args[1].InputParameter = Text("")
    /\ call.args[1].OutputParameter = Text("")
    /\ call.args[1].OutputDataType = Text("1")
    /\ result[1] = Ok(Bool(FALSE))

-----------------------------------------------------------------------------
(* Properties of a worklist read from a path *)

\* C22 (states): for a path that is not an existing file read_worklist stops
\* with FileNotFoundError before the parser is reached; for a file that is
\* not well-formed XML it stops with XMLSyntaxError at the parser; nothing is
\* decoded or returned in either case.
C22_State ==
    call.fn = "read_worklist" =>
        LET entry == call.args[1]
        IN  /\ entry.kind # "file" =>
                  /\ pc \in {"read_worklist", "Failed"}
                  /\ pc = "Failed" => error = "FileNotFoundError"
            /\ (entry.kind = "file" /\ entry.content # "xml") =>
                  /\ pc \in {"read_worklist", "get_validated_tree", "objectify.parse", "Failed"}
                  /\ pc = "Failed" => error = "XMLSyntaxError"
            /\ entry.content # "xml" =>
                  (root = NoRoot /\ version = Unset /\ worklist = << >>)
            /\ pc = "Failed" => error # ""

\* C22 (steps): an error raised stays the error of the call.
C22_Step == (pc = "Failed") => (pc' = "Failed" /\ error' = error)

\* C22: a path that is not an existing file fails with FileNotFoundError
\* before any XML is parsed, a file that is not well-formed XML fails with
\* XMLSyntaxError; the two are different exceptions and reach the caller as
\* raised.
C22_MissingOrInvalid == []C22_State /\ [][C22_Step]_vars

\* read_worklist failed on a file that is not XML.
C22_Witness ==
    /\ call.fn = "read_worklist"
    /\ call.args[1].kind = "file" /\ call.args[1].content = "not xml"
    /\ pc = "Failed" /\ error = "XMLSyntaxError"

-----------------------------------------------------------------------------
(* Properties of repeated parses *)

\* C23: after any sequence of parses, returned or failed, the static column
\* table is as at import (28 columns, no derived column among them), and the
\* user_columns of a parse holds only columns declared by the attributes of
\* its own document, whatever the parses before it discovered.
C23_NoSharedColumns ==
    /\ columns = ColumnsAtImport
    /\ Len(DictKeys(columns)) = 28
    /\ \A name \in DictKeySet(columns) : DictGet(columns, name).attribute_type = SystemDefined
    /\ DictKeySet(user_columns) \subseteq UserHeaderNames
    /\ (pc = "Attributes" /\ root.Attributes = << >>) => user_columns = EmptyDict
    /\ worklist # << >> => DictKeySet(worklist[1].user_columns) = UserHeaderNames

\* A parse that discovered "Drying Gas" was followed by the parse of a
\* document declaring only "Gas Temp", whose Worklist holds that column only.
C23_Witness ==
    /\ "Drying Gas" \in DiscoveredBefore
    /\ worklist # << >>
    /\ DictKeySet(worklist[1].user_columns) = {"Gas Temp"}

-----------------------------------------------------------------------------
(* Properties of a document given whole *)

\* The exception the loop of line 204 raises on this Attributes child, ""
\* when the child decodes.
AttributeErrorOf(element) ==
    LET decoded == Attribute_from_xml(element)
    IN  IF ~decoded.ok THEN decoded.err
        ELSE IF ~IsUserColumn(decoded.val) THEN ""
        ELSE LET column == from_attribute(decoded.val)
             IN  IF column.ok THEN "" ELSE column.err

MalformedAttributes ==
    {i \in 1..Len(document.Attributes) : AttributeErrorOf(document.Attributes[i]) # ""}

\* The JobData children that do not decode whatever the user columns are.
MalformedJobs ==
    {j \in 1..Len(document.JobData) : ~JobData_from_xml(document.JobData[j], EmptyDict).ok}

FirstMalformedAttribute == CHOOSE i \in MalformedAttributes : \A k \in MalformedAttributes : i <= k

StepsAfter(step) ==
    CASE step = "Version" -> {"Checksum"}
      [] step = "Checksum" -> {"LockedRunMode"}
      [] step = "LockedRunMode" -> {"Instrument"}
      [] step = "Instrument" -> {"Params"}
      [] step = "Params" -> {"Attributes", "JobData", "Return"}
      [] step = "Attributes" -> {"Attributes", "JobData", "Return"}
      [] step = "JobData" -> {"JobData", "Return"}
      [] step = "Return" -> {"Done"}
      [] step = "Done" -> {"Table", "TableFailed"}
      [] OTHER -> {}

C25_State ==
    /\ checksum # Unset => version # Unset
    /\ root.LockedRunMode # << >> => checksum # Unset
    /\ instrument_name # Unset => locked_run_mode # Unset
    /\ params # Unset => instrument_name # Unset
    /\ root.Attributes # << >> => params # Unset
    /\ job # Unset => params # Unset /\ Len(attributes_list) = Len(document.Attributes)
    /\ ~LockedRunMode(document.LockedRunMode).ok =>
          /\ instrument_name = Unset /\ params = Unset
          /\ root.Attributes = << >> /\ attributes_list = << >>
          /\ job = Unset /\ jobs_list = << >>
          /\ root.LockedRunMode # << >> =>
                pc = "Failed" /\ error = LockedRunMode(document.LockedRunMode).err
    /\ MalformedAttributes # {} =>
          /\ job = Unset /\ jobs_list = << >>
          /\ (pc = "Failed" /\ params # Unset) =>
                /\ root.Attributes = SubSeq(document.Attributes, 1, FirstMalformedAttribute)
                /\ error = AttributeErrorOf(document.Attributes[FirstMalformedAttribute])

C25_Step ==
    pc' # pc => (pc' \in StepsAfter(pc) \/ (pc' = "Failed" /\ pc \notin {"Done", "Failed"}))

\* C25: the steps run in the order Version, Checksum, LockedRunMode,
\* Instrument, Params, attributes, jobs.  On a document whose LockedRunMode is
\* invalid the ValueError of LockedRunMode is the error raised, and neither
\* Params nor any Attributes or JobData child has been decoded, whether or not
\* those are malformed too; on a document with a malformed attribute no job is
\* ever decoded, and the error raised past Params is that of the first
\* malformed attribute, whether or not a job is malformed too.
C25_FixedOrder == []C25_State /\ [][C25_Step]_vars

\* LockedRunMode, Params, an attribute and a job are all malformed, and the
\* error raised is the one of LockedRunMode.
C25_Witness ==
    /\ pc = "Failed"
    /\ error = "ValueError: Unknown value for 'LockedRunMode'"
    /\ version # Unset /\ checksum # Unset
    /\ ~parse_params(document.Params).ok
    /\ parse_params(document.Params).err # error
    /\ MalformedAttributes # {} /\ MalformedJobs # {}

\* C26: the values a returned worklist holds under the 4 derived keys and the
\* 28 static names of a job depend on the job's SampleInfo element and the
\* static table only: whatever the attributes of the document, as long as no
\* attribute that is not SystemDefined is named like one of these keys, they
\* are the values the same SampleInfo element gives in a document without
\* attributes, and the static table is the one of import time.
C26_StaticKeysIndependent ==
    (worklist # << >> /\ UserHeaderNames \cap (DerivedKeys \cup StaticNames) = {}) =>
        /\ columns = ColumnsAtImport
        /\ Len(worklist[1].jobs) = Len(document.JobData)
        /\ \A j \in 1..Len(worklist[1].jobs) :
              \E alone \in {parse_sample_info(document.JobData[j].SampleInfo, EmptyDict)} :
                  /\ alone.ok
                  /\ \A key \in DerivedKeys \cup StaticNames :
                        worklist[1].jobs[j].sample_info[key] = alone.val[key]

\* A returned worklist whose document has a SystemDefined attribute named like
\* a static column and a user column, both with the id of a SampleDataArray
\* child of its job.
C26_Witness ==
    /\ worklist # << >>
    /\ UserHeaderNames \cap (DerivedKeys \cup StaticNames) = {}
    /\ \E i \in 1..Len(document.Attributes) :
          /\ ~NotSystemDefined(document.Attributes[i])
          /\ strip(document.Attributes[i].HeaderName) = "Sample ID"
          /\ Len(worklist[1].jobs) = 1
          /\ Carries(document.JobData[1], AttributeIdOf(document.Attributes[i]))
    /\ "Drying Gas" \in DOMAIN worklist[1].jobs[1].sample_info
    /\ worklist[1].jobs[1].sample_info["Sample ID"] = Str("S-1")

\* The number of places of the list that hold x.
CountOf(list, x) == Cardinality({h \in 1..Len(list) : list[h] = x})

\* The names of the user columns of the returned worklist that job j of the
\* document carries a SampleDataArray child for.
CarriedNames(j) ==
    {name \in DictKeySet(worklist[1].user_columns) :
        Carries(document.JobData[j], worklist[1].user_columns.at[name].attribute_id)}

\* The user column named `name` is named like a static or derived key, job j
\* carries a child with its id, and sample_info holds under the name the
\* column's cast of the DataValue and has no key beyond the 32 and the user
\* columns carried.
Overrides(name, j) ==
    LET column == worklist[1].user_columns.at[name]
        element == document.JobData[j]
        child == DataOf(element)[LastCarrying(element, column.attribute_id)]
        v == cast_value(column, Str(strip(child.DataValue)))
        sample_info == worklist[1].jobs[j].sample_info
    IN  /\ v.ok
        /\ sample_info[name] = v.val
        /\ DOMAIN sample_info = DerivedKeys \cup StaticNames \cup CarriedNames(j)
        /\ Cardinality(DOMAIN sample_info) =
              Cardinality(DOMAIN parse_sample_info(element.SampleInfo, EmptyDict).val)
                  + Cardinality(CarriedNames(j) \ (DerivedKeys \cup StaticNames))

\* C27 as stated: a user column named like a static or a derived key, carried
\* by a job, replaces the value under that name, adds no key, and the name
\* is twice in the header list of the table.
C27_HeaderTwice ==
    worklist # << >> =>
        \A name \in DictKeySet(worklist[1].user_columns) \cap (StaticNames \cup DerivedKeys) :
            \A j \in 1..Len(worklist[1].jobs) :
                name \in CarriedNames(j) =>
                    /\ Overrides(name, j)
                    /\ table # << >> => CountOf(table[1].columns, name) = 2

\* C27: a user column named like a static or a derived key, carried by a
\* job, replaces the value under that name and adds no key; the name is
\* twice in the header list of the table when it is a static name, and once
\* when it is a derived key.
C27_Override ==
    worklist # << >> =>
        \A name \in DictKeySet(worklist[1].user_columns) \cap (StaticNames \cup DerivedKeys) :
            \A j \in 1..Len(worklist[1].jobs) :
                name \in CarriedNames(j) =>
                    /\ Overrides(name, j)
                    /\ table # << >> =>
                          CountOf(table[1].columns, name) =
                              IF name \in StaticNames THEN 2 ELSE 1

\* A table made from a worklist with a user column named "Sample ID" and one
\* named "Label", whose job carries a child with their id: both values are
\* the DataValue, not the text of the Identifier and Label children.
C27_Witness ==
    /\ table # << >>
    /\ Len(worklist[1].jobs) = 1
    /\ {"Sample ID", "Label"} \subseteq DictKeySet(worklist[1].user_columns)
    /\ {"Sample ID", "Label"} \subseteq CarriedNames(1)
    /\ worklist[1].jobs[1].sample_info["Sample ID"] = Str("200")
    /\ worklist[1].jobs[1].sample_info["Label"] = Str("200")
    /\ parse_sample_info(document.JobData[1].SampleInfo, EmptyDict).val["Sample ID"] = Str("S-1")
    /\ parse_sample_info(document.JobData[1].SampleInfo, EmptyDict).val["Label"] = Str("a")
    /\ CountOf(table[1].columns, "Sample ID") = 2
    /\ CountOf(table[1].columns, "Label") = 1

\* The attributes of the document that are not SystemDefined and whose
\* trimmed header name is `name`.
Declaring(name) ==
    {i \in 1..Len(document.Attributes) :
        /\ NotSystemDefined(document.Attributes[i])
        /\ strip(document.Attributes[i].HeaderName) = name}

LastDeclaring(name) == CHOOSE i \in Declaring(name) : \A k \in Declaring(name) : k <= i

\* The ids of the attributes declaring `name` before the last one that no
\* column of user_columns has.
EarlierIds(name) ==
    {AttributeIdOf(document.Attributes[i]) : i \in Declaring(name)}
        \ {worklist[1].user_columns.at[n].attribute_id : n \in DictKeySet(worklist[1].user_columns)}

\* The SampleInfo element without its SampleDataArray children of these ids.
WithoutIds(element, ids) ==
    LET Kept(child) == AttributeIdOf(child) \notin ids
    IN  [element EXCEPT !.SampleDataArray = SelectSeq(@, Kept)]

ChildrenCarrying(j, attribute_id) ==
    {c \in 1..Len(DataOf(document.JobData[j])) :
        AttributeIdOf(DataOf(document.JobData[j])[c]) = attribute_id}

\* C29: in every decoded job, the value under the name of a user column whose
\* attribute_id one or several SampleDataArray children carry is that
\* column's cast of the DataValue of the last of these children in document
\* order; this holds for each of the columns that share one attribute_id, so
\* that one child stores a value under every one of their names.
C29_LastChildEveryColumn ==
    \A j \in 1..Len(jobs_list) :
        \A name \in DictKeySet(user_columns) :
            LET column == user_columns.at[name]
                carrying == ChildrenCarrying(j, column.attribute_id)
            IN  carrying # {} =>
                    LET last == CHOOSE c \in carrying : \A d \in carrying : d <= c
                        v == cast_value(column,
                                        Str(strip(DataOf(document.JobData[j])[last].DataValue)))
                    IN  /\ v.ok
                        /\ name \in DOMAIN jobs_list[j].sample_info
                        /\ jobs_list[j].sample_info[name] = v.val

\* "Drying Gas" (passthrough) and "Gas Temp" (float) both have id 31; the job
\* carries two children with id 31, holding 5 and 12: the values kept are
\* those of 12, each in its column's type.
C29_Witness ==
    /\ Len(jobs_list) = 1
    /\ {"Drying Gas", "Gas Temp"} \subseteq DictKeySet(user_columns)
    /\ user_columns.at["Drying Gas"].attribute_id = 31
    /\ user_columns.at["Gas Temp"].attribute_id = 31
    /\ ChildrenCarrying(1, 31) = {1, 2}
    /\ strip(DataOf(document.JobData[1])[1].DataValue) = "5"
    /\ jobs_list[1].sample_info["Drying Gas"] = Str("12")
    /\ jobs_list[1].sample_info["Gas Temp"] = Float(120)

\* A child that is not SystemDefined, with DataType 5 and a DefaultDataValue
\* that float() does not read.
FloatWithoutNumber(element) ==
    /\ NotSystemDefined(element)
    /\ strip(element.DataType) = "5"
    /\ strip(element.DefaultDataValue) \notin IntLiterals \cup DecimalLiterals

FirstFloatWithoutNumber ==
    CHOOSE i \in 1..Len(document.Attributes) :
        /\ FloatWithoutNumber(document.Attributes[i])
        /\ \A k \in 1..(i - 1) : ~FloatWithoutNumber(document.Attributes[k])

\* The last of the first n attributes of the document that is not
\* SystemDefined and has this header name.
LastDeclaringBy(name, n) ==
    CHOOSE i \in 1..n :
        /\ NotSystemDefined(document.Attributes[i])
        /\ strip(document.Attributes[i].HeaderName) = name
        /\ \A k \in (i + 1)..n :
               ~(/\ NotSystemDefined(document.Attributes[k])
                 /\ strip(document.Attributes[k].HeaderName) = name)

\* C30: a document with an attribute that is not SystemDefined, has DataType 5
\* and a DefaultDataValue that is empty or not a number never gets past that
\* attribute: reading it raises ValueError, no JobData child is ever decoded
\* and nothing is returned, whether or not a job carries the attribute's id.
\* An attribute that is not SystemDefined and has another DataType is
\* accepted whatever its default: the column under its name holds the default
\* text, trimmed and not converted.
C30_FloatDefault ==
    /\ (\E i \in 1..Len(document.Attributes) : FloatWithoutNumber(document.Attributes[i])) =>
          /\ job = Unset /\ jobs_list = << >> /\ worklist = << >>
          /\ Len(root.Attributes) <= FirstFloatWithoutNumber
          /\ Len(root.Attributes) = FirstFloatWithoutNumber =>
                /\ pc = "Failed" /\ error = "ValueError"
                /\ Len(attributes_list) = FirstFloatWithoutNumber
    /\ \A name \in UserHeaderNames :
          LET i == LastDeclaringBy(name, Len(root.Attributes))
              element == document.Attributes[i]
          IN  (i <= Len(attributes_list) /\ strip(element.DataType) \in IntLiterals \ {"5"}) =>
                  /\ DictHas(user_columns, name)
                  /\ user_columns.at[name].dtype =
                        (IF strip(element.DataType) = "8" THEN "str" ELSE "Any")
                  /\ user_columns.at[name].default_value = Str(strip(element.DefaultDataValue))

\* "Nebulizer" is declared with DataType 8 and the default "n/a", accepted as
\* text, then with DataType 5 and the same default: from_xml fails there,
\* with a job in the document that carries no child of its id.
C30_Witness ==
    /\ pc = "Failed" /\ error = "ValueError"
    /\ Len(document.Attributes) = 2 /\ Len(root.Attributes) = 2
    /\ strip(document.Attributes[1].DataType) = "8"
    /\ FloatWithoutNumber(document.Attributes[2])
    /\ strip(document.Attributes[2].DefaultDataValue) = "n/a"
    /\ DictHas(user_columns, "Nebulizer")
    /\ user_columns.at["Nebulizer"].default_value = Str("n/a")
    /\ Len(document.JobData) = 1
    /\ DataOf(document.JobData[1]) = << >>
    /\ job = Unset

====
